---- MODULE Spec2Model ----
(***************************************************************************)
(* DDBot: the scrape orchestrator (ddbot/scraper.py), the alert history    *)
(* with its cooldown (ddbot/history.py) and the poll scheduler             *)
(* (ddbot/main.py), as one sequential state machine.  The single logical   *)
(* worker's position is pc; the wall clock and the shutdown signal are the *)
(* only things that move independently of it.                              *)
(***************************************************************************)
EXTENDS Integers, Sequences, FiniteSets, TLC

\* ------------------------------------------------------------------ bounds
\* The wall clock runs over 0..MaxTime (abstract seconds).
MaxTime == 3
\* Poll cycles one run of run_loop may start.
MaxCycles == 2
\* alert_cooldown of the configuration, in the clock's abstract seconds.
CooldownSecs == 2

\* scrape_service calls the scraper-only specification makes.
MaxCalls == 2
\* The largest retries argument the scraper-only specification passes.
MaxRetries == 3
\* stop() calls the teardown specification makes on one scraper.
MaxStops == 2
\* The longest data series of an embedded object.
MaxSeries == 2
\* The largest report count _classify_status is applied to directly.
MaxCount == 60

\* -------------------------------------------------------- program constants
\* scrape_service(service, retries=2)
DefaultRetries == 2
\* Config.threshold default
Threshold == 10
\* Config.poll_interval default
PollInterval == 1800
\* max_backoff in run_loop
MaxBackoff == 3600
\* the linear backoff factor of scrape_service
BackoffFactor == 3

\* Python's None for an optional string (ScrapeResult.error, last_error).
None == "<None>"
\* A timestamp string datetime.fromisoformat rejects (ValueError).
BadTimestamp == -1

\* ------------------------------------------------------------------ inputs
\* Service names as they reach poll_once: Config.from_env lower-cases the
\* configured ones, --service passes its argument through unchanged.
ServiceNames == {"mtn", "MTN", "vodacom"}

\* str.lower() on the service names of the model.
Lower(s) == IF s = "MTN" THEN "mtn" ELSE s

\* config.services (run_loop)
ConfigServices == <<"mtn", "vodacom">>
\* services=[args.service] (run_once --service MTN)
OnceServices == <<"MTN">>

\* config.whatsapp_recipients and config.telegram_chat_ids
WhatsappRecipients == <<"27111">>
TelegramChatIds == <<"42">>

\* str(exc) of the exceptions a tier may raise; Exception() has str "".
ErrorMessages == {"", "Network error"}

\* Truthiness of an optional string: None and "" are both falsy.
Truthy(s) == s # None /\ s # ""

\* --------------------------------------------------------- pure functions
\* _classify_status with the two thresholds belonging to the lower band.
_classify_status_inclusive(report_count) ==
    IF report_count <= 10 THEN "ok"
    ELSE IF report_count <= 50 THEN "warning"
    ELSE "danger"

\* DownDetectorScraper._classify_status
_classify_status(report_count) ==
    IF report_count < 10 THEN "ok"
    ELSE IF report_count < 50 THEN "warning"
    ELSE "danger"

\* status = page_status or self._classify_status(report_count)
StatusOr(page_status, report_count) ==
    IF Truthy(page_status) THEN page_status ELSE _classify_status(report_count)

\* The ScrapeResult dataclass (timestamp is never read by the scheduler and
\* is left out).
ScrapeResult(service, report_count, status, error, source) ==
    [service |-> service, report_count |-> report_count, status |-> status,
     error |-> error, source |-> source]

NoResult == ScrapeResult("", 0, "", None, "")

\* ------------------------------------------------------ Tier 1 (curl_cffi)
\* What _do_scrape_curl reads of an HTTP exchange: the exception the GET
\* raises (raises = None when it returns), the status code, and of the body:
\* whether a challenge marker occurs in it, the status token and the y
\* literals the two regular expressions of _parse_properties_from_html find
\* (status_tok = "" when the first does not match), the two substrings of the
\* Next.js test, the "no current problems" phrase, and the number
\* _parse_report_text finds in the stripped text (-1 for None).
Response(raises, status_code, challenge, status_tok, yvals, next_static, window_dd, no_problems, text_count) ==
    [raises |-> raises, status_code |-> status_code, challenge |-> challenge,
     status_tok |-> status_tok, yvals |-> yvals, next_static |-> next_static,
     window_dd |-> window_dd, no_problems |-> no_problems,
     text_count |-> text_count]

\* The exchanges the scheduler's model draws from.
Responses ==
    { Response(m, 0, FALSE, "", <<>>, FALSE, FALSE, FALSE, -1) : m \in ErrorMessages }
    \cup
    { Response(None, 403, FALSE, "", <<>>, FALSE, FALSE, FALSE, -1),
      Response(None, 200, TRUE, "", <<>>, FALSE, FALSE, FALSE, -1),
      Response(None, 200, FALSE, "", <<>>, TRUE, FALSE, FALSE, -1),
      Response(None, 200, FALSE, "warning", <<5, 12, 10>>, FALSE, TRUE, FALSE, -1),
      Response(None, 200, FALSE, "success", <<>>, FALSE, TRUE, FALSE, -1),
      Response(None, 200, FALSE, "", <<>>, FALSE, FALSE, TRUE, -1),
      Response(None, 200, FALSE, "", <<>>, FALSE, FALSE, FALSE, 9),
      Response(None, 200, FALSE, "", <<>>, FALSE, FALSE, FALSE, -1) }

\* status_map.get(token, "ok"): an unrecognized token read as ok.
StatusMap_default_ok(tok) ==
    CASE tok = "warning" -> "warning"
      [] tok = "danger" -> "danger"
      [] OTHER -> "ok"

\* status_map.get(token, None) of both embedded-object strategies
StatusMap(tok) ==
    CASE tok = "success" -> "ok"
      [] tok = "warning" -> "warning"
      [] tok = "danger" -> "danger"
      [] OTHER -> None

\* Optional[tuple[int, Optional[str]]]
Extracted(some, report_count, page_status) ==
    [some |-> some, report_count |-> report_count, page_status |-> page_status]

\* DownDetectorScraper._parse_properties_from_html, on what the two regular
\* expressions found.
_parse_properties_from_html(status_tok, yvals) ==
    LET page_status == IF status_tok # "" THEN StatusMap(status_tok) ELSE None
    IN  IF yvals # <<>> THEN Extracted(TRUE, yvals[Len(yvals)], page_status)
        ELSE IF page_status = "ok" THEN Extracted(TRUE, 0, page_status)
        ELSE Extracted(FALSE, 0, None)

\* The three ways a tier call ends.
Returned(result) == [tag |-> "ok", result |-> result, status_code |-> 0, msg |-> None]
Blocked(status_code, reason) ==
    [tag |-> "blocked", result |-> NoResult, status_code |-> status_code, msg |-> reason]
Raised(msg) == [tag |-> "error", result |-> NoResult, status_code |-> 0, msg |-> msg]

\* _do_scrape_curl looking for embedded data before it looks at the status
\* code and the challenge markers.
_do_scrape_curl_extract_first(curl_session, service, resp) ==
    LET result == _parse_properties_from_html(resp.status_tok, resp.yvals)
    IN  IF ~curl_session THEN Raised("curl_cffi session not started. Call start() first.")
        ELSE IF resp.raises # None THEN Raised(resp.raises)
        ELSE IF result.some
        THEN Returned(ScrapeResult(service, result.report_count,
                 StatusOr(result.page_status, result.report_count), None, "curl"))
        ELSE IF resp.status_code # 200 THEN Blocked(resp.status_code, "HTTP")
        ELSE IF resp.challenge THEN Blocked(200, "Cloudflare challenge detected")
        ELSE Returned(ScrapeResult(service, 0, "ok", None, "curl"))

\* DownDetectorScraper._do_scrape_curl
_do_scrape_curl(curl_session, service, resp) ==
    IF ~curl_session THEN Raised("curl_cffi session not started. Call start() first.")
    ELSE IF resp.raises # None THEN Raised(resp.raises)
    ELSE IF resp.status_code # 200 THEN Blocked(resp.status_code, "HTTP")
    ELSE IF resp.challenge THEN Blocked(200, "Cloudflare challenge detected")
    ELSE LET result == _parse_properties_from_html(resp.status_tok, resp.yvals)
         IN  IF result.some
             THEN Returned(ScrapeResult(service, result.report_count,
                      StatusOr(result.page_status, result.report_count), None, "curl"))
             ELSE IF resp.next_static /\ ~resp.window_dd
             THEN Blocked(200, "Next.js client-rendered page, needs Playwright")
             ELSE IF resp.no_problems
             THEN Returned(ScrapeResult(service, 0, "ok", None, "curl"))
             ELSE IF resp.text_count # -1
             THEN Returned(ScrapeResult(service, resp.text_count,
                      _classify_status(resp.text_count), None, "curl"))
             ELSE Returned(ScrapeResult(service, 0, "ok", None, "curl"))

\* ----------------------------------------------------- Tier 2 (Playwright)
\* What _do_scrape_playwright meets: the exception navigation raises (None
\* when it does not), and what _extract_from_page gets from the page.
PageVisit(raises, report_count, page_status) ==
    [raises |-> raises, report_count |-> report_count, page_status |-> page_status]

PageVisits ==
    { PageVisit(m, 0, None) : m \in ErrorMessages }
    \cup { PageVisit(None, 0, None), PageVisit(None, 9, "ok"),
           PageVisit(None, 10, None) }

\* DownDetectorScraper._do_scrape_playwright
_do_scrape_playwright(page, service, visit) ==
    IF ~page THEN Raised("Playwright not started.")
    ELSE IF visit.raises # None THEN Raised(visit.raises)
    ELSE Returned(ScrapeResult(service, visit.report_count,
             StatusOr(visit.page_status, visit.report_count), None, "playwright"))

\* ------------------------------------------------------------ alert history
\* AlertRecord; timestamp is the instant the ISO string denotes, or
\* BadTimestamp for a string datetime.fromisoformat rejects.
AlertRecord(service, report_count, timestamp, recipients) ==
    [service |-> service, report_count |-> report_count,
     timestamp |-> timestamp, recipients |-> recipients]

\* The keys AlertRecord.to_dict writes and from_dict requires.
RecordKeys == {"service", "report_count", "timestamp", "recipients"}
RequiredKeys == {"service", "report_count", "timestamp"}

\* A JSON value that may stand in the array of a history file: an object
\* with some of the keys of a record, or something that is not an object
\* (a number, a string, null, a list).
JsonObject(keys, service, report_count, timestamp, recipients) ==
    [kind |-> "object", keys |-> keys, service |-> service, report_count |-> report_count,
     timestamp |-> timestamp, recipients |-> recipients]

JsonScalar == [kind |-> "scalar", keys |-> {}, service |-> None, report_count |-> 0,
               timestamp |-> BadTimestamp, recipients |-> <<>>]

\* to_dict with no "recipients" key.
to_dict_without_recipients(record) ==
    JsonObject(RequiredKeys, record.service, record.report_count, record.timestamp, <<>>)

\* AlertRecord.to_dict
to_dict(record) ==
    JsonObject(RecordKeys, record.service, record.report_count, record.timestamp,
               record.recipients)

\* AlertRecord.from_dict: the record, or the exception data["..."] raises.
from_dict(data) ==
    IF data.kind # "object"
    THEN [raised |-> "TypeError", record |-> AlertRecord(None, 0, BadTimestamp, <<>>)]
    ELSE IF ~(RequiredKeys \subseteq data.keys)
    THEN [raised |-> "KeyError", record |-> AlertRecord(None, 0, BadTimestamp, <<>>)]
    ELSE [raised |-> None,
          record |-> AlertRecord(data.service, data.report_count, data.timestamp,
                                 IF "recipients" \in data.keys THEN data.recipients ELSE <<>>)]

\* What a path may hold: no file ("absent"); text json.loads rejects
\* ("undecodable"); JSON that is a number or null ("scalar"); JSON that is a
\* non-empty object ("object"); a JSON array of items ("array"); the first
\* items of an array, cut short ("partial"); an empty file ("empty").
File(kind, items) == [kind |-> kind, items |-> items]
AbsentFile == File("absent", <<>>)
ArrayFile(items) == File("array", items)

\* json.dumps([r.to_dict() for r in self._records], indent=2): the content
\* _save writes.
Serialized(recs) == ArrayFile([i \in 1..Len(recs) |-> to_dict(recs[i])])

\* AlertHistory._load on a file: the records it sets, the exception that
\* leaves it (None when it returns), and whether it renames the file aside.
_load(file) ==
    LET Result(recs, raised, quarantine) ==
            [records |-> recs, raised |-> raised, quarantine |-> quarantine]
        items == file.items
        bad == {i \in 1..Len(items) : from_dict(items[i]).raised # None}
        first == CHOOSE i \in bad : \A j \in bad : i <= j
    IN  CASE file.kind = "absent" -> Result(<<>>, None, FALSE)
          [] file.kind \in {"undecodable", "partial", "empty"} -> Result(<<>>, None, TRUE)
          [] file.kind \in {"scalar", "object"} -> Result(<<>>, "TypeError", FALSE)
          [] OTHER ->
                IF bad = {}
                THEN Result([i \in 1..Len(items) |-> from_dict(items[i]).record], None, FALSE)
                ELSE IF from_dict(items[first]).raised = "KeyError"
                THEN Result(<<>>, None, TRUE)
                ELSE Result(<<>>, "TypeError", FALSE)

\* ScanCooldown with <= for <: an alert exactly cooldown_seconds old still
\* suppresses.
ScanCooldown_inclusive(recs, i, service, cooldown_seconds, t) ==
    \E j \in 1..i :
        /\ Lower(recs[j].service) = Lower(service)
        /\ recs[j].timestamp # BadTimestamp
        /\ t - recs[j].timestamp <= cooldown_seconds

\* ScanCooldown returning at the first matching record whose timestamp
\* parses, recent or not.
ScanCooldown_first_match_decides(recs, i, service, cooldown_seconds, t) ==
    LET cands == {j \in 1..i : /\ Lower(recs[j].service) = Lower(service)
                               /\ recs[j].timestamp # BadTimestamp}
    IN  /\ cands # {}
        /\ \E j \in cands :
            /\ \A k \in cands : k <= j
            /\ t - recs[j].timestamp < cooldown_seconds

\* One step of the loop of is_in_cooldown over reversed(self._records): the
\* records recs[1..i] are still to be looked at, newest (recs[i]) first.
RECURSIVE ScanCooldown(_, _, _, _, _)
ScanCooldown(recs, i, service, cooldown_seconds, t) ==
    IF i = 0 THEN FALSE
    ELSE LET record == recs[i]
         IN  IF Lower(record.service) # Lower(service)
             THEN ScanCooldown(recs, i - 1, service, cooldown_seconds, t)
             ELSE IF record.timestamp = BadTimestamp
             THEN ScanCooldown(recs, i - 1, service, cooldown_seconds, t)
             ELSE IF t - record.timestamp < cooldown_seconds
             THEN TRUE
             ELSE ScanCooldown(recs, i - 1, service, cooldown_seconds, t)

\* AlertHistory.is_in_cooldown, at clock reading t
is_in_cooldown(recs, service, cooldown_seconds, t) ==
    ScanCooldown(recs, Len(recs), service, cooldown_seconds, t)

\* The history files a run may find on disk at start.
InitialFiles ==
    { AbsentFile,
      Serialized(<< AlertRecord("mtn", 20, 0, <<"27111">>) >>),
      Serialized(<< AlertRecord("vodacom", 12, BadTimestamp, <<"27111">>) >>) }

\* ------------------------------------------------------------ configuration
\* A DD_POLL_INTERVAL under which the backoff doubles twice before the cap.
ShortPollInterval == 600
\* The smallest DD_POLL_INTERVAL Config.validate accepts.
MinPollInterval == 10
\* A DD_POLL_INTERVAL above max_backoff.
LongPollInterval == 7200
\* Config.active_hours_start / active_hours_end defaults
ActiveHoursStart == 7
ActiveHoursEnd == 20
\* The hours datetime.now(tz).hour is drawn from.
Hours == {6, 7, 19, 20}

\* The local current_hour of is_within_active_hours outside a call of it.
NoHour == -1

\* is_within_active_hours with the end hour inside the window.
is_within_active_hours_end_inclusive(current_hour) ==
    ActiveHoursStart <= current_hour /\ current_hour <= ActiveHoursEnd

\* is_within_active_hours, for the current hour
is_within_active_hours(current_hour) ==
    ActiveHoursStart <= current_hour /\ current_hour < ActiveHoursEnd

RECURSIVE Pow2(_)
Pow2(n) == IF n = 0 THEN 1 ELSE 2 * Pow2(n - 1)

Min(a, b) == IF a < b THEN a ELSE b

\* The recipients of rs, in order, whose index is in S.
Pick(rs, S) ==
    LET F[i \in 0..Len(rs)] ==
            IF i = 0 THEN <<>>
            ELSE IF i \in S THEN Append(F[i - 1], rs[i]) ELSE F[i - 1]
    IN  F[Len(rs)]

\* What a notifier's send_alert may return: the recipients whose send_message
\* returned True, in order.
Delivered(rs) == { Pick(rs, S) : S \in SUBSET (1..Len(rs)) }

\* [f"tg:{c}" for c in sent_to]
TgTagged(sent_to) == [i \in 1..Len(sent_to) |-> "tg:" \o sent_to[i]]

\* -------------------------------------------------------------------- state
VARIABLES
    pc,                 \* where the worker is
    mode,               \* "loop" (run_loop), "once" (run_once --service), "calls" (scrape_service called directly), "history" (AlertHistory called directly)
    now,                \* datetime.now(timezone.utc), abstract seconds
    shutdown,           \* _shutdown.is_set()
    curl_session,       \* self._curl_session is not None
    playwright_started, \* self._playwright_started
    page,               \* self._page is not None
    chrome_process,     \* self._chrome_process is not None
    leaked,             \* a launched Chrome runs on with no handle held on it
    playwright,         \* self._playwright is not None
    stop_calls,         \* the stop() calls made: what each did and whether it raised
    retries,            \* scrape_service: retries
    attempt,            \* scrape_service: attempt
    last_error,         \* scrape_service: last_error
    result,             \* the ScrapeResult scrape_service returned
    trace,              \* the tier calls and sleeps of the scrape_service call, when recorded
    calls,              \* direct scrape_service calls made
    tally,              \* over the finished direct calls: CurlBlockedErrors, _ensure_playwright calls, Tier 2 scrapes
    targets,            \* poll_once: targets
    idx,                \* poll_once: i + 1
    any_success,        \* poll_once: any_success
    scraped,            \* the services scrape_service was called for in this poll cycle, in order
    in_cooldown,        \* what is_in_cooldown answered for this service: "n/a" when not asked
    notified,           \* the notifiers whose send_alert was called for this service
    all_sent_to,        \* poll_once: all_sent_to
    records,            \* AlertHistory._records
    disk,               \* the content of the history file
    n_loaded,           \* the records _load found
    bak,                \* the content of the .json.bak file
    tmp,                \* the content of the temporary file of _save
    whatsapp_notifier,  \* whatsapp_notifier is not None
    telegram_notifier,  \* telegram_notifier is not None
    poll_interval,      \* config.poll_interval
    dry_run,            \* args.dry_run
    openclaw_gateway_token, \* config.openclaw_gateway_token is not empty
    cycles,             \* poll cycles started
    consecutive_all_fail,
    wait_time,
    heartbeats,         \* HEARTBEAT_FILE.touch() calls
    current_hour,       \* is_within_active_hours: current_hour, until the branch on its answer is taken
    input,              \* what an extraction function is given
    output,             \* what it returned or raised
    challenge           \* _do_scrape_playwright: what the challenge handling has done so far

scraperVars == <<curl_session, playwright_started, page, chrome_process, leaked,
                 playwright, stop_calls>>
frameVars == <<retries, attempt, last_error, result, trace>>
harnessVars == <<calls, tally>>
pollVars == <<targets, idx, any_success, scraped, in_cooldown, notified, all_sent_to>>
historyVars == <<records, disk, n_loaded, bak, tmp>>
configVars == <<mode, whatsapp_notifier, telegram_notifier, poll_interval, dry_run,
                openclaw_gateway_token>>
loopVars == <<cycles, consecutive_all_fail, wait_time, heartbeats, current_hour>>
extractVars == <<input, output, challenge>>

vars == <<pc, now, shutdown, scraperVars, frameVars, harnessVars, pollVars,
          historyVars, configVars, loopVars, extractVars>>

\* backoff_wait growing by poll_interval per failed cycle.
backoff_wait_linear(streak) == Min(poll_interval * (streak + 1), MaxBackoff)

\* wait_time after an all-fail or crashed cycle with the given streak
backoff_wait(streak) == Min(poll_interval * Pow2(streak), MaxBackoff)

\* One entry of trace: what happened, in which attempt, its argument (the
\* seconds of a sleep; 1 when _ensure_playwright launched a process) and the
\* str() of the exception raised, if one was.
Event(ev, att, arg, msg) == [ev |-> ev, att |-> att, arg |-> arg, msg |-> msg]

\* The trace is recorded for direct calls only.
Log(ev, arg, msg) ==
    IF mode = "calls" THEN Append(trace, Event(ev, attempt, arg, msg)) ELSE trace

\* The locals of the challenge handling of _do_scrape_playwright: whether
\* the first _is_cloudflare_challenge() was true, the re-checks made in the
\* first loop, the calls of _click_cloudflare_checkbox, whether it returned
\* True, the re-checks made in the second loop, and resolved.
ChallengeFrame(detected, rechecks, clicks, clicked, click_rechecks, resolved) ==
    [detected |-> detected, rechecks |-> rechecks, clicks |-> clicks, clicked |-> clicked,
     click_rechecks |-> click_rechecks, resolved |-> resolved]

NoChallenge == ChallengeFrame(FALSE, 0, 0, FALSE, 0, FALSE)

\* The state every run starts from: nothing started, no call made.
InitCommon ==
    /\ now = 0
    /\ shutdown = FALSE
    /\ curl_session = FALSE
    /\ playwright_started = FALSE
    /\ page = FALSE
    /\ chrome_process = FALSE
    /\ leaked = FALSE
    /\ playwright = FALSE
    /\ stop_calls = <<>>
    /\ retries = 0
    /\ attempt = 0
    /\ last_error = None
    /\ result = NoResult
    /\ trace = <<>>
    /\ calls = 0
    /\ tally = [blocked |-> 0, ensure |-> 0, tier2 |-> 0]
    /\ idx = 0
    /\ any_success = FALSE
    /\ scraped = <<>>
    /\ in_cooldown = "n/a"
    /\ notified = {}
    /\ all_sent_to = <<>>
    /\ bak = AbsentFile
    /\ tmp = AbsentFile
    /\ cycles = 0
    /\ consecutive_all_fail = 0
    /\ wait_time = 0
    /\ heartbeats = 0
    /\ current_hour = NoHour
    /\ input = None
    /\ output = None
    /\ challenge = NoChallenge

\* history = AlertHistory(): _load has read the file.
InitLoaded ==
    /\ records = _load(disk).records
    /\ n_loaded = Len(records)

\* run_loop or run_once has built the scraper, the notifiers
\* (create_notifiers) and the history (AlertHistory.__init__ and _load).
Init ==
    /\ \/ /\ mode = "loop"
          /\ targets = ConfigServices
          /\ disk = AbsentFile
          /\ \/ whatsapp_notifier = TRUE /\ poll_interval = PollInterval
             \/ whatsapp_notifier = FALSE /\ poll_interval = ShortPollInterval
          /\ telegram_notifier = FALSE
       \/ /\ mode = "once"
          /\ targets = OnceServices
          /\ disk \in InitialFiles
          /\ whatsapp_notifier = TRUE
          /\ telegram_notifier = TRUE
          /\ poll_interval = PollInterval
    /\ pc = "start"
    /\ dry_run = FALSE
    /\ openclaw_gateway_token = whatsapp_notifier
    /\ InitCommon
    /\ InitLoaded

\* A DownDetectorScraper has been built and scrape_service is about to be
\* called on it directly, as the tests of the orchestrator do.
InitCalls ==
    /\ mode = "calls"
    /\ targets = <<"mtn">>
    /\ disk = AbsentFile
    /\ whatsapp_notifier = FALSE
    /\ telegram_notifier = FALSE
    /\ poll_interval = PollInterval
    /\ pc = "start"
    /\ dry_run = FALSE
    /\ openclaw_gateway_token = whatsapp_notifier
    /\ InitCommon
    /\ InitLoaded

\* ---------------------------------------------------------- scrape_service
\* The frame of a new scrape_service(service, retries=r) call.
CallScrape(r) ==
    /\ retries' = r
    /\ attempt' = 1
    /\ last_error' = None
    /\ result' = NoResult
    /\ trace' = <<>>
    /\ pc' = "tier1"

\* tier1_handler with the CurlBlockedError clause lost: a blocked Tier 1 is
\* retried like any other failure.
tier1_handler_no_fallback(out) ==
    CASE out.tag = "ok" -> "returned"
      [] OTHER -> "attempt_end"

\* tier1_handler catching every exception in the CurlBlockedError clause.
tier1_handler_always_fallback(out) ==
    CASE out.tag = "ok" -> "returned"
      [] OTHER -> "ensure"

\* The try/except around Tier 1: where an outcome of _do_scrape_curl leads.
tier1_handler(out) ==
    CASE out.tag = "ok" -> "returned"
      [] out.tag = "blocked" -> "ensure"
      [] OTHER -> "attempt_end"

\* Tier 1 of one attempt: _do_scrape_curl and the except clauses that catch it.
ScrapeTier1 ==
    /\ pc = "tier1"
    /\ \E resp \in Responses :
        LET out == _do_scrape_curl(curl_session, targets[idx], resp)
            to == tier1_handler(out)
        IN  /\ trace' = Log("t1_" \o out.tag, 0, IF out.tag = "error" THEN out.msg ELSE None)
            /\ result' = IF to = "returned" THEN out.result ELSE result
            /\ last_error' = IF to = "attempt_end" THEN out.msg ELSE last_error
            /\ pc' = to
    /\ UNCHANGED <<now, shutdown, scraperVars, retries, attempt, harnessVars, pollVars,
                   historyVars, configVars, extractVars, loopVars>>

\* last_error = f"Playwright fallback failed: {pw_exc}"
fallback_error(msg) == "Playwright fallback failed: " \o msg

\* _ensure_playwright, called by the Tier 2 branch of scrape_service.  It
\* returns at once when Tier 2 is ready; else it fails before the launch
\* (_find_chrome_executable), or launches Chrome and then fails
\* (_wait_for_cdp_ready, connect_over_cdp), or launches and attaches.  A
\* launch overwrites self._chrome_process.
EnsurePlaywright ==
    /\ pc = "ensure"
    /\ \/ /\ playwright_started
          /\ trace' = Log("ensure_ok", 0, None)
          /\ pc' = "tier2"
          /\ UNCHANGED <<scraperVars, last_error>>
       \/ /\ ~playwright_started
          /\ trace' = Log("ensure_fail", 0, "Chrome executable not found.")
          /\ last_error' = fallback_error("Chrome executable not found.")
          /\ pc' = "attempt_end"
          /\ UNCHANGED scraperVars
       \/ /\ ~playwright_started
          /\ chrome_process' = TRUE
          /\ leaked' = (leaked \/ chrome_process)
          /\ \/ /\ trace' = Log("ensure_fail", 1, "Chrome CDP endpoint not ready")
                /\ last_error' = fallback_error("Chrome CDP endpoint not ready")
                /\ pc' = "attempt_end"
                /\ UNCHANGED <<playwright_started, page, playwright>>
             \/ /\ trace' = Log("ensure_fail", 1, "connect_over_cdp failed")
                /\ last_error' = fallback_error("connect_over_cdp failed")
                /\ playwright' = TRUE
                /\ pc' = "attempt_end"
                /\ UNCHANGED <<playwright_started, page>>
             \/ /\ trace' = Log("ensure_ok", 1, None)
                /\ playwright_started' = TRUE
                /\ playwright' = TRUE
                /\ page' = TRUE
                /\ pc' = "tier2"
                /\ UNCHANGED last_error
          /\ UNCHANGED <<curl_session, stop_calls>>
    /\ UNCHANGED <<now, shutdown, retries, attempt, result, harnessVars, pollVars,
                   historyVars, configVars, extractVars, loopVars>>

\* Tier 2 of one attempt: _do_scrape_playwright and the except clause around it.
ScrapeTier2 ==
    /\ pc = "tier2"
    /\ \E visit \in PageVisits :
        LET out == _do_scrape_playwright(page, targets[idx], visit)
        IN  /\ trace' = Log("t2_" \o out.tag, 0, out.msg)
            /\ result' = IF out.tag = "ok" THEN out.result ELSE result
            /\ last_error' = IF out.tag = "ok" THEN last_error ELSE fallback_error(out.msg)
            /\ pc' = IF out.tag = "ok" THEN "returned" ELSE "attempt_end"
    /\ UNCHANGED <<now, shutdown, scraperVars, retries, attempt, harnessVars, pollVars,
                   historyVars, configVars, extractVars, loopVars>>

\* has_next_attempt running the loop once more than retries.
has_next_attempt_one_more(att, r) == att <= r

\* for attempt in range(1, retries + 1): whether an attempt follows this one
has_next_attempt(att, r) == att < r

\* if attempt < retries: (before the sleep)
sleeps_after(att, r) == att < r

\* backoff_seconds with a constant in place of the linear backoff.
backoff_seconds_constant(att) == BackoffFactor

\* await asyncio.sleep(3 * attempt): the seconds slept
backoff_seconds(att) == BackoffFactor * att

\* The end of a failed attempt: the sleep and the next attempt, or, after the
\* last attempt, the error result.
AttemptEnd ==
    /\ pc = "attempt_end"
    /\ trace' = IF sleeps_after(attempt, retries)
                THEN Log("sleep", backoff_seconds(attempt), None)
                ELSE trace
    /\ IF has_next_attempt(attempt, retries)
       THEN /\ attempt' = attempt + 1
            /\ pc' = "tier1"
            /\ UNCHANGED result
       ELSE /\ result' = ScrapeResult(targets[idx], 0, "error", last_error, "error")
            /\ pc' = "returned"
            /\ UNCHANGED attempt
    /\ UNCHANGED <<now, shutdown, scraperVars, retries, last_error, harnessVars, pollVars,
                   historyVars, configVars, extractVars, loopVars>>

\* ------------------------------------------------------------------ stop()
\* The fields of the scraper that stop() reads and writes.  page stands for
\* _context, _page and _browser, which a completed attach sets together.
ScraperState(curl, started, pg, pw, chrome) ==
    [curl_session |-> curl, playwright_started |-> started, page |-> pg,
     playwright |-> pw, chrome_process |-> chrome]

\* What one call of stop() meets: whether _curl_session.close() raises,
\* whether _context.close() and _browser.close() raise, whether
\* _playwright.stop() raises, and what the Chrome process does on terminate():
\* it exits within the 5 s wait ("exits"), it does not ("timeout"), or the
\* call raises OSError ("oserror").
StopEnv(curl_close_raises, close_raises, playwright_stop_raises, terminate) ==
    [curl_close_raises |-> curl_close_raises, close_raises |-> close_raises,
     playwright_stop_raises |-> playwright_stop_raises, terminate |-> terminate]

StopEnvs ==
    { StopEnv(c, x, p, t) : c \in BOOLEAN, x \in BOOLEAN, p \in BOOLEAN,
                            t \in {"exits", "timeout", "oserror"} }

\* chrome_teardown with the kill sent whether or not the process exited.
chrome_teardown_kill_always(terminate) == <<"terminate", "kill">>

\* The try block on self._chrome_process: terminate() and wait(timeout=5),
\* kill() and wait on TimeoutExpired, nothing more on OSError.
chrome_teardown(terminate) ==
    IF terminate = "timeout" THEN <<"terminate", "kill">> ELSE <<"terminate">>

\* handle_after_teardown with the handle left in place.
handle_after_teardown_kept(chrome) == chrome

\* self._chrome_process = None
handle_after_teardown(chrome) == FALSE

\* The outcome of a stop() call: the scraper's fields afterwards, the close and
\* terminate calls it made, in order, and the call that raised out of it
\* (None when stop() returned).
StopOutcome(state, log, raised) == [state |-> state, log |-> log, raised |-> raised]

\* DownDetectorScraper.stop
stop(s, env) ==
    LET curl_log == IF s.curl_session THEN <<"curl_close">> ELSE <<>>
        s1 == [s EXCEPT !.curl_session = FALSE]
        closes == IF s.playwright_started /\ s.page
                  THEN <<"context_close", "browser_close">> ELSE <<>>
        pw_stop == IF s.playwright_started /\ s.playwright
                   THEN <<"playwright_stop">> ELSE <<>>
        s2 == IF s.playwright_started THEN [s1 EXCEPT !.page = FALSE] ELSE s1
        s3 == IF s.playwright_started
              THEN [s2 EXCEPT !.playwright = FALSE, !.playwright_started = FALSE]
              ELSE s2
        chrome_log == IF s.chrome_process THEN chrome_teardown(env.terminate) ELSE <<>>
        s4 == IF s.chrome_process
              THEN [s3 EXCEPT !.chrome_process = handle_after_teardown(s.chrome_process)]
              ELSE s3
    IN  IF s.curl_session /\ env.curl_close_raises
        THEN StopOutcome(s, curl_log, "curl_session.close")
        ELSE IF pw_stop # <<>> /\ env.playwright_stop_raises
        THEN StopOutcome(s2, curl_log \o closes \o pw_stop, "playwright.stop")
        ELSE StopOutcome(s4, curl_log \o closes \o pw_stop \o chrome_log, None)

\* The scraper as stop() finds it.
Scraper == ScraperState(curl_session, playwright_started, page, playwright, chrome_process)

\* The outcomes stop() can have on the scraper s.
StopOutcomes(s) == { stop(s, env) : env \in StopEnvs }

\* await scraper.stop(): the fields it leaves and the record of the call.
CallStop ==
    \E out \in StopOutcomes(Scraper) :
        /\ curl_session' = out.state.curl_session
        /\ playwright_started' = out.state.playwright_started
        /\ page' = out.state.page
        /\ playwright' = out.state.playwright
        /\ chrome_process' = out.state.chrome_process
        /\ stop_calls' = Append(stop_calls, [log |-> out.log, raised |-> out.raised])
        /\ UNCHANGED leaked

\* ------------------------------------------------- direct scrape_service calls
\* The number of entries of tr whose event is in evs.
CountEvents(tr, evs) == Cardinality({i \in 1..Len(tr) : tr[i].ev \in evs})

\* await scraper.scrape_service("mtn", retries=r)
DirectCall ==
    /\ pc = "idle"
    /\ calls < MaxCalls
    /\ calls' = calls + 1
    /\ idx' = 1
    /\ \E r \in 1..MaxRetries : CallScrape(r)
    /\ UNCHANGED <<now, shutdown, scraperVars, tally, targets, any_success, scraped, in_cooldown,
                   notified, all_sent_to, historyVars, configVars, extractVars, loopVars>>

\* The call has returned: its tier calls are added to the run's tally.
DirectReturn ==
    /\ pc = "returned"
    /\ tally' = [blocked |-> tally.blocked + CountEvents(trace, {"t1_blocked"}),
                 ensure |-> tally.ensure + CountEvents(trace, {"ensure_ok", "ensure_fail"}),
                 tier2 |-> tally.tier2 + CountEvents(trace, {"t2_ok", "t2_error"})]
    /\ pc' = "idle"
    /\ UNCHANGED <<now, shutdown, scraperVars, frameVars, calls, pollVars,
                   historyVars, configVars, extractVars, loopVars>>

\* ---------------------------------------------------------------- poll_once
\* result = await scraper.scrape_service(service), at the top of the loop
\* body, with the body's locals fresh.
PollCallScrape ==
    /\ CallScrape(DefaultRetries)
    /\ scraped' = Append(IF idx' = 1 THEN <<>> ELSE scraped, targets[idx'])
    /\ in_cooldown' = "n/a"
    /\ notified' = {}
    /\ all_sent_to' = <<>>

\* targets = services or config.services; any_success = False; the first
\* iteration of the for loop.
PollBegin ==
    /\ pc = "poll_begin"
    /\ idx' = 1
    /\ any_success' = FALSE
    /\ PollCallScrape
    /\ current_hour' = NoHour
    /\ UNCHANGED <<now, shutdown, scraperVars, harnessVars, targets, historyVars,
                   configVars, extractVars, cycles, consecutive_all_fail, wait_time,
                   heartbeats>>

\* if result.error:
scrape_failed(r) == Truthy(r.error)

\* exceeds_threshold with > for >=.
exceeds_threshold_strict(report_count) == report_count > Threshold

\* if result.report_count >= config.threshold:
exceeds_threshold(report_count) == report_count >= Threshold

\* poll_decision without the is_in_cooldown test.
poll_decision_no_cooldown(r, recs, service, t) ==
    IF scrape_failed(r) THEN "error"
    ELSE IF ~(r.report_count >= Threshold) THEN "below"
    ELSE "dispatch"

\* The branch poll_once takes on a ScrapeResult: "error", "below", "cooldown"
\* or "dispatch".
poll_decision(r, recs, service, t) ==
    IF scrape_failed(r) THEN "error"
    ELSE IF ~exceeds_threshold(r.report_count) THEN "below"
    ELSE IF is_in_cooldown(recs, service, CooldownSecs, t) THEN "cooldown"
    ELSE "dispatch"

\* poll_once from the return of scrape_service to the decision to alert; the
\* frame of scrape_service is gone.
PollEvaluate ==
    /\ pc = "returned"
    /\ LET d == poll_decision(result, records, targets[idx], now)
       IN  /\ any_success' = (any_success \/ d # "error")
           /\ in_cooldown' = CASE d = "cooldown" -> "yes"
                               [] d = "dispatch" -> "no"
                               [] OTHER -> "n/a"
           /\ pc' = IF d = "dispatch" THEN "send" ELSE "delay"
    /\ retries' = 0
    /\ attempt' = 0
    /\ last_error' = None
    /\ UNCHANGED <<now, shutdown, scraperVars, result, trace, harnessVars, targets, idx,
                   scraped, notified, all_sent_to, historyVars, configVars, extractVars, loopVars>>

\* The two send_alert calls of poll_once, each made when its notifier exists
\* and has recipients.
PollSend ==
    /\ pc = "send"
    /\ \E wa \in Delivered(WhatsappRecipients), tg \in Delivered(TelegramChatIds) :
        LET use_wa == whatsapp_notifier /\ WhatsappRecipients # <<>>
            use_tg == telegram_notifier /\ TelegramChatIds # <<>>
            sent == (IF use_wa THEN wa ELSE <<>>) \o (IF use_tg THEN TgTagged(tg) ELSE <<>>)
        IN  /\ all_sent_to' = sent
            /\ notified' = (IF use_wa THEN {"whatsapp"} ELSE {})
                           \cup (IF use_tg THEN {"telegram"} ELSE {})
    /\ pc' = "record"
    /\ UNCHANGED <<now, shutdown, scraperVars, frameVars, harnessVars, targets, idx,
                   any_success, scraped, in_cooldown, historyVars, configVars, extractVars, loopVars>>

\* should_record without the test of all_sent_to.
should_record_always(sent) == TRUE

\* if all_sent_to:
should_record(sent) == sent # <<>>

\* PollRecord with the exception of _save caught and dropped.
PollRecord_swallow ==
    /\ pc = "record"
    /\ IF all_sent_to # <<>>
       THEN /\ records' = Append(records,
                    AlertRecord(targets[idx], result.report_count, now, all_sent_to))
            /\ \/ disk' = Serialized(records')
               \/ disk' = disk
       ELSE UNCHANGED <<records, disk>>
    /\ pc' = "delay"
    /\ UNCHANGED <<now, shutdown, scraperVars, frameVars, harnessVars, pollVars,
                   n_loaded, bak, tmp, configVars, extractVars, loopVars>>

\* PollRecord with the record appended only once _save has succeeded.
PollRecord_append_after_save ==
    /\ pc = "record"
    /\ IF should_record(all_sent_to)
       THEN \/ /\ records' = Append(records,
                       AlertRecord(targets[idx], result.report_count, now, all_sent_to))
               /\ disk' = Serialized(records')
               /\ pc' = "delay"
            \/ /\ pc' = "poll_raised"
               /\ UNCHANGED <<records, disk>>
       ELSE /\ pc' = "delay"
            /\ UNCHANGED <<records, disk>>
    /\ UNCHANGED <<now, shutdown, scraperVars, frameVars, harnessVars, pollVars,
                   n_loaded, bak, tmp, configVars, extractVars, loopVars>>

\* if all_sent_to: history.record_alert(...), which appends the record and
\* calls _save; _save either replaces the file or raises, and the exception
\* leaves poll_once.
PollRecord ==
    /\ pc = "record"
    /\ IF should_record(all_sent_to)
       THEN /\ records' = Append(records,
                    AlertRecord(targets[idx], result.report_count, now, all_sent_to))
            /\ \/ disk' = Serialized(records') /\ pc' = "delay"
               \/ disk' = disk /\ pc' = "poll_raised"
       ELSE /\ pc' = "delay"
            /\ UNCHANGED <<records, disk>>
    /\ UNCHANGED <<now, shutdown, scraperVars, frameVars, harnessVars, pollVars,
                   n_loaded, bak, tmp, configVars, extractVars, loopVars>>

\* PollDelay with the for loop left after a service whose scrape failed.
PollDelay_stop_after_failure ==
    /\ pc = "delay"
    /\ IF idx < Len(targets) /\ ~scrape_failed(result)
       THEN /\ idx' = idx + 1
            /\ PollCallScrape
       ELSE /\ pc' = "poll_done"
            /\ result' = NoResult
            /\ UNCHANGED <<retries, attempt, last_error, trace, idx, scraped, in_cooldown,
                           notified, all_sent_to>>
    /\ UNCHANGED <<now, shutdown, scraperVars, harnessVars, targets, any_success,
                   historyVars, configVars, extractVars, loopVars>>

\* The end of the loop body: the delay and the next service's scrape, or,
\* after the last service, return any_success.
PollDelay ==
    /\ pc = "delay"
    /\ IF idx < Len(targets)
       THEN /\ idx' = idx + 1
            /\ PollCallScrape
       ELSE /\ pc' = "poll_done"
            /\ result' = NoResult
            /\ UNCHANGED <<retries, attempt, last_error, trace, idx, scraped, in_cooldown,
                           notified, all_sent_to>>
    /\ UNCHANGED <<now, shutdown, scraperVars, harnessVars, targets, any_success,
                   historyVars, configVars, extractVars, loopVars>>

\* ------------------------------------------------------ run_loop, run_once
\* start() launching the browser along with the curl_cffi session.
Start_eager_browser ==
    /\ pc = "start"
    /\ curl_session' = TRUE
    /\ playwright_started' = TRUE
    /\ page' = TRUE
    /\ chrome_process' = TRUE
    /\ playwright' = TRUE
    /\ pc' = CASE mode = "loop" -> "loop_top"
               [] mode = "once" -> "poll_begin"
               [] OTHER -> "idle"
    /\ UNCHANGED <<now, shutdown, leaked, stop_calls, frameVars, harnessVars, pollVars,
                   historyVars, configVars, extractVars, loopVars>>

\* await scraper.start()
Start ==
    /\ pc = "start"
    /\ curl_session' = TRUE
    /\ pc' = CASE mode = "loop" -> "loop_top"
               [] mode = "once" -> "poll_begin"
               [] OTHER -> "idle"
    /\ UNCHANGED <<now, shutdown, playwright_started, page, chrome_process, leaked,
                   playwright, stop_calls, frameVars, harnessVars, pollVars, historyVars,
                   configVars, extractVars, loopVars>>

\* LoopIterate leaving run_loop, on shutdown, without the finally clause.
LoopIterate_exit_without_stop ==
    /\ pc = "loop_top"
    /\ shutdown
    /\ pc' = "done"
    /\ UNCHANGED <<now, shutdown, scraperVars, frameVars, harnessVars, pollVars,
                   historyVars, configVars, extractVars, loopVars>>

\* One test of the while condition of run_loop and, when it holds, the top of
\* the body: wait_time, the active-hours test, and the call of poll_once.
\* is_within_active_hours raises when ZoneInfo rejects config.timezone; the
\* exception is outside the inner try and leaves the loop.
LoopIterate ==
    /\ pc = "loop_top"
    /\ IF shutdown
       THEN /\ pc' = "finally"
            /\ UNCHANGED <<cycles, wait_time, current_hour>>
       ELSE /\ wait_time' = poll_interval
            /\ \/ \E hour \in Hours :
                    /\ current_hour' = hour
                    /\ IF is_within_active_hours(hour)
                       THEN /\ cycles < MaxCycles
                            /\ cycles' = cycles + 1
                            /\ pc' = "poll_begin"
                       ELSE /\ pc' = "wait"
                            /\ UNCHANGED cycles
               \/ /\ pc' = "finally"
                  /\ UNCHANGED <<cycles, current_hour>>
    /\ UNCHANGED <<now, shutdown, scraperVars, frameVars, harnessVars, pollVars,
                   historyVars, configVars, extractVars, consecutive_all_fail, heartbeats>>

\* LoopAfterPoll touching the heartbeat whatever poll_once returned.
LoopAfterPoll_always_touch ==
    /\ pc = "poll_done"
    /\ mode = "loop"
    /\ heartbeats' = heartbeats + 1
    /\ IF any_success
       THEN /\ consecutive_all_fail' = 0
            /\ UNCHANGED wait_time
       ELSE /\ consecutive_all_fail' = consecutive_all_fail + 1
            /\ wait_time' = backoff_wait(consecutive_all_fail + 1)
    /\ pc' = "wait"
    /\ UNCHANGED <<now, shutdown, scraperVars, frameVars, harnessVars, pollVars,
                   historyVars, configVars, extractVars, cycles, current_hour>>

\* run_loop after poll_once returned.
LoopAfterPoll ==
    /\ pc = "poll_done"
    /\ mode = "loop"
    /\ IF any_success
       THEN /\ consecutive_all_fail' = 0
            /\ heartbeats' = heartbeats + 1
            /\ UNCHANGED wait_time
       ELSE /\ consecutive_all_fail' = consecutive_all_fail + 1
            /\ wait_time' = backoff_wait(consecutive_all_fail + 1)
            /\ UNCHANGED heartbeats
    /\ pc' = "wait"
    /\ UNCHANGED <<now, shutdown, scraperVars, frameVars, harnessVars, pollVars,
                   historyVars, configVars, extractVars, cycles, current_hour>>

\* LoopPollCrashed with the exception left to end run_loop.
LoopPollCrashed_terminates ==
    /\ pc = "poll_raised"
    /\ mode = "loop"
    /\ pc' = "finally"
    /\ UNCHANGED <<now, shutdown, scraperVars, frameVars, harnessVars, pollVars,
                   historyVars, configVars, extractVars, loopVars>>

\* run_loop's except Exception around poll_once.
LoopPollCrashed ==
    /\ pc = "poll_raised"
    /\ mode = "loop"
    /\ consecutive_all_fail' = consecutive_all_fail + 1
    /\ wait_time' = backoff_wait(consecutive_all_fail + 1)
    /\ pc' = "wait"
    /\ UNCHANGED <<now, shutdown, scraperVars, frameVars, harnessVars, pollVars,
                   historyVars, configVars, extractVars, cycles, heartbeats, current_hour>>

\* LoopWaitShutdown for a wait that sleeps on, whatever the event.
LoopWaitShutdown_deaf ==
    /\ FALSE
    /\ UNCHANGED vars

\* await asyncio.wait_for(_shutdown.wait(), timeout=wait_time) when the
\* event is set: _shutdown.wait() returns.
LoopWaitShutdown ==
    /\ pc = "wait"
    /\ shutdown
    /\ pc' = "loop_top"
    /\ current_hour' = NoHour
    /\ UNCHANGED <<now, shutdown, scraperVars, frameVars, harnessVars, pollVars,
                   historyVars, configVars, extractVars, cycles,
                   consecutive_all_fail, wait_time, heartbeats>>

\* The same wait when the event is not set: it ends with asyncio.TimeoutError
\* once wait_time seconds have passed.
LoopWaitTimeout ==
    /\ pc = "wait"
    /\ ~shutdown
    /\ pc' = "loop_top"
    /\ current_hour' = NoHour
    /\ UNCHANGED <<now, shutdown, scraperVars, frameVars, harnessVars, pollVars,
                   historyVars, configVars, extractVars, cycles,
                   consecutive_all_fail, wait_time, heartbeats>>

\* run_once after poll_once returned or raised: on to the finally clause.
OnceAfterPoll ==
    /\ pc \in {"poll_done", "poll_raised"}
    /\ mode = "once"
    /\ pc' = "finally"
    /\ UNCHANGED <<now, shutdown, scraperVars, frameVars, harnessVars, pollVars,
                   historyVars, configVars, extractVars, loopVars>>

\* The finally clause of run_loop and run_once: await scraper.stop(), which
\* returns or raises; either way the function is left.
ScraperStop ==
    /\ pc = "finally"
    /\ CallStop
    /\ pc' = "done"
    /\ UNCHANGED <<now, shutdown, frameVars, harnessVars, pollVars,
                   historyVars, configVars, extractVars, loopVars>>

\* _handle_signal: SIGINT or SIGTERM arrives while run_loop runs.
HandleSignal ==
    /\ mode = "loop"
    /\ pc # "done"
    /\ ~shutdown
    /\ shutdown' = TRUE
    /\ UNCHANGED <<pc, now, scraperVars, frameVars, harnessVars, pollVars,
                   historyVars, configVars, extractVars, loopVars>>

\* The wall clock advances; an answer of is_in_cooldown is kept with the
\* clock reading it was given at.
Tick ==
    /\ now < MaxTime
    /\ pc \notin {"start", "done", "asked"}
    /\ now' = now + 1
    /\ UNCHANGED <<pc, shutdown, scraperVars, frameVars, harnessVars, pollVars,
                   historyVars, configVars, extractVars, loopVars>>

\* The scheduler: run_loop, or run_once on one service.
Next ==
    \/ Start
    \/ LoopIterate
    \/ PollBegin
    \/ ScrapeTier1
    \/ EnsurePlaywright
    \/ ScrapeTier2
    \/ AttemptEnd
    \/ PollEvaluate
    \/ PollSend
    \/ PollRecord
    \/ PollDelay
    \/ LoopAfterPoll
    \/ LoopPollCrashed
    \/ LoopWaitShutdown
    \/ LoopWaitTimeout
    \/ OnceAfterPoll
    \/ ScraperStop
    \/ HandleSignal
    \/ Tick

Spec == Init /\ [][Next]_vars

\* The steps of the program itself: everything but the clock, the signal and
\* the expiry of the inter-cycle timeout.
Program ==
    \/ Start
    \/ LoopIterate
    \/ PollBegin
    \/ ScrapeTier1
    \/ EnsurePlaywright
    \/ ScrapeTier2
    \/ AttemptEnd
    \/ PollEvaluate
    \/ PollSend
    \/ PollRecord
    \/ PollDelay
    \/ LoopAfterPoll
    \/ LoopPollCrashed
    \/ LoopWaitShutdown
    \/ OnceAfterPoll
    \/ ScraperStop

\* run_loop with one configured service and the WhatsApp notifier.
InitLive ==
    /\ mode = "loop"
    /\ targets = <<"mtn">>
    /\ disk = AbsentFile
    /\ whatsapp_notifier = TRUE
    /\ telegram_notifier = FALSE
    /\ poll_interval = PollInterval
    /\ pc = "start"
    /\ dry_run = FALSE
    /\ openclaw_gateway_token = whatsapp_notifier
    /\ InitCommon
    /\ InitLoaded

\* run_loop alone: the scheduler without run_once.
NextLive ==
    \/ Start
    \/ LoopIterate
    \/ PollBegin
    \/ ScrapeTier1
    \/ EnsurePlaywright
    \/ ScrapeTier2
    \/ AttemptEnd
    \/ PollEvaluate
    \/ PollSend
    \/ PollRecord
    \/ PollDelay
    \/ LoopAfterPoll
    \/ LoopPollCrashed
    \/ LoopWaitShutdown
    \/ LoopWaitTimeout
    \/ ScraperStop
    \/ HandleSignal
    \/ Tick

\* The event loop runs the one task whenever it can run; nothing obliges the
\* clock to advance, a signal to arrive or the timeout to expire.
SpecLive == InitLive /\ [][NextLive]_vars /\ WF_vars(Program)

\* scrape_service called directly on a started scraper, MaxCalls times.
\* run_loop with one configured service, the WhatsApp notifier, and a poll
\* interval at the lower limit of Config.validate or above max_backoff.
InitBackoff ==
    /\ mode = "loop"
    /\ targets = <<"mtn">>
    /\ disk = AbsentFile
    /\ whatsapp_notifier = TRUE
    /\ telegram_notifier = FALSE
    /\ poll_interval \in {MinPollInterval, LongPollInterval}
    /\ pc = "start"
    /\ dry_run = FALSE
    /\ openclaw_gateway_token = whatsapp_notifier
    /\ InitCommon
    /\ InitLoaded

SpecBackoff == InitBackoff /\ [][NextLive]_vars

NextCalls ==
    \/ Start
    \/ DirectCall
    \/ ScrapeTier1
    \/ EnsurePlaywright
    \/ ScrapeTier2
    \/ AttemptEnd
    \/ DirectReturn

SpecCalls == InitCalls /\ [][NextCalls]_vars

\* ------------------------------------------------------------------- main()
\* The messages of Config.validate the model can produce.
TokenRequired == "OPENCLAW_GATEWAY_TOKEN is required"
RecipientsRequired == "WHATSAPP_RECIPIENTS must contain at least one number"
ThresholdInvalid == "DD_THRESHOLD must be >= 1"

\* Config.validate: the error messages, for a configuration with or without
\* a gateway token, with the given recipients and a valid or invalid threshold.
validate(token, recipients, threshold_valid) ==
    (IF threshold_valid THEN {} ELSE {ThresholdInvalid})
    \cup (IF token THEN {} ELSE {TokenRequired})
    \cup (IF recipients # <<>> THEN {} ELSE {RecipientsRequired})

\* "OPENCLAW" in e or "WHATSAPP_RECIPIENTS" in e
MentionsWhatsApp(e) == e \in {TokenRequired, RecipientsRequired}

\* The errors main() exits on: in dry-run mode those of the WhatsApp
\* settings are dropped.
startup_errors(dry, errors) ==
    IF dry THEN { e \in errors : ~MentionsWhatsApp(e) } ELSE errors

\* create_notifiers: whether the WhatsApp notifier is built.
create_notifiers(token, recipients) == token /\ recipients # <<>>

\* The program started as `ddbot --once --service MTN`, with or without
\* --dry-run, on a configuration with or without a gateway token.
InitMain ==
    /\ pc = "main"
    /\ mode = "once"
    /\ dry_run \in BOOLEAN
    /\ openclaw_gateway_token \in BOOLEAN
    /\ targets = OnceServices
    /\ disk = AbsentFile
    /\ whatsapp_notifier = FALSE
    /\ telegram_notifier = FALSE
    /\ poll_interval = PollInterval
    /\ InitCommon
    /\ InitLoaded

\* main() from parse_args to the call of run_once, and run_once up to
\* scraper.start(): the configuration is validated, the program exits on an
\* error that is left, otherwise the notifiers are created.
Main ==
    /\ pc = "main"
    /\ \E threshold_valid \in BOOLEAN, telegram \in BOOLEAN :
         LET errors == startup_errors(dry_run,
                           validate(openclaw_gateway_token, WhatsappRecipients, threshold_valid))
         IN  IF errors # {}
             THEN /\ pc' = "exit"
                  /\ UNCHANGED <<whatsapp_notifier, telegram_notifier>>
             ELSE /\ pc' = "start"
                  /\ whatsapp_notifier' = create_notifiers(openclaw_gateway_token,
                                                           WhatsappRecipients)
                  /\ telegram_notifier' = telegram
    /\ UNCHANGED <<now, shutdown, scraperVars, frameVars, harnessVars, pollVars,
                   historyVars, mode, poll_interval, dry_run, openclaw_gateway_token,
                   extractVars, loopVars>>

NextMain ==
    \/ Main
    \/ Start
    \/ PollBegin
    \/ ScrapeTier1
    \/ EnsurePlaywright
    \/ ScrapeTier2
    \/ AttemptEnd
    \/ PollEvaluate
    \/ PollSend
    \/ PollRecord
    \/ PollDelay
    \/ OnceAfterPoll
    \/ ScraperStop
    \/ Tick

SpecMain == InitMain /\ [][NextMain]_vars

\* ---------------------------------------------- stop() called on a scraper
\* A DownDetectorScraper that is started, used for scrape_service calls and
\* stopped, with stop() also called before start() and more than once.
InitStop ==
    /\ mode = "stop"
    /\ targets = <<"mtn">>
    /\ disk = AbsentFile
    /\ whatsapp_notifier = FALSE
    /\ telegram_notifier = FALSE
    /\ poll_interval = PollInterval
    /\ pc = "start"
    /\ dry_run = FALSE
    /\ openclaw_gateway_token = whatsapp_notifier
    /\ InitCommon
    /\ InitLoaded

\* await scraper.stop(), called directly between scrape_service calls.
StopCall ==
    /\ mode = "stop"
    /\ pc \in {"start", "idle"}
    /\ Len(stop_calls) < MaxStops
    /\ CallStop
    /\ UNCHANGED <<pc, now, shutdown, frameVars, harnessVars, pollVars,
                   historyVars, configVars, extractVars, loopVars>>

NextStop ==
    \/ Start
    \/ DirectCall
    \/ ScrapeTier1
    \/ EnsurePlaywright
    \/ ScrapeTier2
    \/ AttemptEnd
    \/ DirectReturn
    \/ StopCall

SpecStop == InitStop /\ [][NextStop]_vars

\* ------------------------------------------------ AlertHistory called directly
\* The records a history file may hold: a configured service, any timestamp
\* of the model or an unparseable one.
FileRecords ==
    { AlertRecord(s, Threshold, ts, WhatsappRecipients) :
        s \in {"mtn", "vodacom"}, ts \in {BadTimestamp} \cup (0..MaxTime) }

\* The history files AlertHistory may load: up to two records, in any order.
HistoryFiles ==
    { Serialized(recs) :
        recs \in {<<>>} \cup { <<a>> : a \in FileRecords }
                        \cup { <<a, b>> : a \in FileRecords, b \in FileRecords } }

\* An AlertHistory has been built on a file, as the tests of the history do.
InitHistory ==
    /\ mode = "history"
    /\ targets \in { <<s>> : s \in ServiceNames }
    /\ disk \in HistoryFiles
    /\ whatsapp_notifier = FALSE
    /\ telegram_notifier = FALSE
    /\ poll_interval = PollInterval
    /\ pc = "start"
    /\ dry_run = FALSE
    /\ openclaw_gateway_token = whatsapp_notifier
    /\ InitCommon
    /\ InitLoaded

\* history.record_alert(s, report_count, recipients), called directly; when
\* _save raises, the exception ends the caller.
HistoryRecordAlert ==
    /\ mode = "history"
    /\ pc = "idle"
    /\ calls < MaxCalls
    /\ calls' = calls + 1
    /\ \E s \in ServiceNames :
        records' = Append(records, AlertRecord(s, Threshold, now, WhatsappRecipients))
    /\ \/ disk' = Serialized(records') /\ pc' = pc
       \/ disk' = disk /\ pc' = "record_raised"
    /\ UNCHANGED <<now, shutdown, scraperVars, frameVars, tally, pollVars,
                   n_loaded, bak, tmp, configVars, extractVars, loopVars>>

\* history.is_in_cooldown(targets[1], cooldown), called directly
AskCooldown ==
    /\ mode = "history"
    /\ pc = "idle"
    /\ in_cooldown' = IF is_in_cooldown(records, targets[1], CooldownSecs, now)
                      THEN "yes" ELSE "no"
    /\ pc' = "asked"
    /\ UNCHANGED <<now, shutdown, scraperVars, frameVars, harnessVars, targets, idx,
                   any_success, scraped, notified, all_sent_to, historyVars, configVars, extractVars, loopVars>>

NextHistory ==
    \/ Start
    \/ HistoryRecordAlert
    \/ AskCooldown
    \/ Tick

SpecHistory == InitHistory /\ [][NextHistory]_vars

\* ------------------------------------------- AlertHistory and its file, by step
\* The items the array of a history file may hold: a record as to_dict
\* writes it, one with no "recipients" key, one with no "timestamp" key, and
\* something that is not an object.
StoreItems ==
    { to_dict(AlertRecord("mtn", Threshold, 0, WhatsappRecipients)),
      JsonObject(RequiredKeys, "vodacom", Threshold, BadTimestamp, <<>>),
      JsonObject({"service", "report_count"}, "mtn", Threshold, BadTimestamp, <<>>),
      JsonScalar }

\* The files an AlertHistory may be built on.
StoreFiles ==
    { AbsentFile, File("undecodable", <<>>), File("empty", <<>>),
      File("scalar", <<>>), File("object", <<>>) }
    \cup { ArrayFile(items) :
            items \in {<<>>} \cup { <<a>> : a \in StoreItems }
                             \cup { <<a, b>> : a \in StoreItems, b \in StoreItems } }

\* What the callers of record_alert pass as recipients.
StoreRecipients == { WhatsappRecipients, WhatsappRecipients \o TgTagged(TelegramChatIds) }

\* A history file is on disk (or none is) and no AlertHistory is built yet.
InitStore ==
    /\ mode = "store"
    /\ targets = <<"mtn">>
    /\ disk \in StoreFiles
    /\ whatsapp_notifier = FALSE
    /\ telegram_notifier = FALSE
    /\ poll_interval = PollInterval
    /\ pc = "start"
    /\ dry_run = FALSE
    /\ openclaw_gateway_token = whatsapp_notifier
    /\ InitCommon
    /\ records = <<>>
    /\ n_loaded = 0

\* AlertHistory(history_file): __init__ and _load, on the file as it is now.
\* A fresh instance may be built at any time the previous one is at rest.
OpenHistory ==
    /\ mode = "store"
    /\ pc \in {"start", "open", "save_raised"}
    /\ LET l == _load(disk)
       IN  IF l.raised # None
           THEN /\ pc' = "load_raised"
                /\ UNCHANGED <<records, n_loaded, disk, bak>>
           ELSE /\ pc' = "open"
                /\ records' = l.records
                /\ n_loaded' = Len(l.records)
                /\ IF l.quarantine
                   THEN \/ bak' = disk /\ disk' = AbsentFile
                        \/ UNCHANGED <<disk, bak>>
                   ELSE UNCHANGED <<disk, bak>>
    /\ UNCHANGED <<now, shutdown, scraperVars, frameVars, harnessVars, pollVars,
                   tmp, configVars, extractVars, loopVars>>

\* record_alert up to the call of _save: the record is appended in memory.
StoreRecordAlert ==
    /\ mode = "store"
    /\ pc \in {"open", "save_raised"}
    /\ calls < MaxCalls
    /\ calls' = calls + 1
    /\ \E rs \in StoreRecipients :
        records' = Append(records, AlertRecord(targets[1], Threshold, now, rs))
    /\ pc' = "save_mkstemp"
    /\ UNCHANGED <<now, shutdown, scraperVars, frameVars, tally, pollVars,
                   disk, n_loaded, bak, tmp, configVars, extractVars, loopVars>>

\* _save up to tempfile.mkstemp: mkdir, json.dumps and mkstemp; any of them
\* may raise, before the try block.
SaveMkstemp ==
    /\ pc = "save_mkstemp"
    /\ \/ tmp' = File("empty", <<>>) /\ pc' = "save_write"
       \/ tmp' = tmp /\ pc' = "save_raised"
    /\ UNCHANGED <<now, shutdown, scraperVars, frameVars, harnessVars, pollVars,
                   records, disk, n_loaded, bak, configVars, extractVars, loopVars>>

\* SaveWrite writing the content into the history file itself.
SaveWrite_in_place ==
    /\ pc = "save_write"
    /\ \/ disk' = Serialized(records) /\ pc' = "open"
       \/ /\ \E k \in 0..(Len(records) - 1) :
                disk' = File("partial", SubSeq(Serialized(records).items, 1, k))
          /\ pc' = "save_cleanup"
    /\ UNCHANGED <<now, shutdown, scraperVars, frameVars, harnessVars, pollVars,
                   records, tmp, n_loaded, bak, configVars, extractVars, loopVars>>

\* with os.fdopen(fd, "w") as f: f.write(content), which may fail part way.
SaveWrite ==
    /\ pc = "save_write"
    /\ \/ tmp' = Serialized(records) /\ pc' = "save_replace"
       \/ /\ \E k \in 0..(Len(records) - 1) :
                tmp' = File("partial", SubSeq(Serialized(records).items, 1, k))
          /\ pc' = "save_cleanup"
    /\ UNCHANGED <<now, shutdown, scraperVars, frameVars, harnessVars, pollVars,
                   records, disk, n_loaded, bak, configVars, extractVars, loopVars>>

\* os.replace(tmp_path, str(self._file)): the rename, or its failure.
SaveReplace ==
    /\ pc = "save_replace"
    /\ \/ disk' = tmp /\ tmp' = AbsentFile /\ pc' = "open"
       \/ UNCHANGED <<disk, tmp>> /\ pc' = "save_cleanup"
    /\ UNCHANGED <<now, shutdown, scraperVars, frameVars, harnessVars, pollVars,
                   records, n_loaded, bak, configVars, extractVars, loopVars>>

\* except BaseException: os.unlink(tmp_path); raise
SaveCleanup ==
    /\ pc = "save_cleanup"
    /\ tmp' = AbsentFile
    /\ pc' = "save_raised"
    /\ UNCHANGED <<now, shutdown, scraperVars, frameVars, harnessVars, pollVars,
                   records, disk, n_loaded, bak, configVars, extractVars, loopVars>>

NextStore ==
    \/ OpenHistory
    \/ StoreRecordAlert
    \/ SaveMkstemp
    \/ SaveWrite
    \/ SaveReplace
    \/ SaveCleanup
    \/ Tick

SpecStore == InitStore /\ [][NextStore]_vars

\* ================================================================== claims
\* ------------------------------------------- the extraction strategies
\* The y values the embedded objects of the model carry: the band boundaries
\* of _classify_status, zero, and a negative number.
YValues == {-1, 0, 9, 10, 49, 50}

\* The status tokens of the model: the three of status_map and one other.
StatusTokens == {"success", "warning", "danger", "maintenance"}

\* A key the object does not have.
Missing == "<missing>"

\* props["series"]["reports"]["data"] as the list of its elements' y values.
Series(data) == [present |-> TRUE, data |-> data]

\* A key on the way to the data list is absent.
NoSeries == [present |-> FALSE, data |-> <<>>]

\* window.DD.currentServiceProperties: props.get("status") and the series.
Props(status, series) == [defined |-> TRUE, status |-> status, series |-> series]

\* No embedded object in the page.
NoProps == [defined |-> FALSE, status |-> Missing, series |-> NoSeries]

\* The sequences over S of length at most n.
SeqsUpTo(S, n) == UNION { [1..k -> S] : k \in 0..n }

PropsSet ==
    { Props(st, se) : st \in StatusTokens \cup {Missing},
                      se \in { Series(d) : d \in SeqsUpTo(YValues, MaxSeries) }
                                \cup {NoSeries} }

\* _parse_service_properties returning the largest y of the series.
_parse_service_properties_max(props) ==
    LET page_status == StatusMap(IF props.status = Missing THEN "" ELSE props.status)
        data_points == props.series.data
        largest == CHOOSE y \in {data_points[i] : i \in 1..Len(data_points)} :
                       \A i \in 1..Len(data_points) : data_points[i] <= y
    IN  IF data_points = <<>>
        THEN Extracted(TRUE, 0, page_status)
        ELSE Extracted(TRUE, largest, page_status)

\* DownDetectorScraper._parse_service_properties: the tuple it returns.
_parse_service_properties(props) ==
    LET page_status == StatusMap(IF props.status = Missing THEN "" ELSE props.status)
        data_points == props.series.data
    IN  IF data_points = <<>>
        THEN Extracted(TRUE, 0, page_status)
        ELSE Extracted(TRUE, data_points[Len(data_points)], page_status)

\* \d+ matches a y literal: digits only, no sign.
IsDigits(y) == y >= 0

\* What the two regular expressions of _parse_properties_from_html find in
\* the markup of an embedded object: the status token ('' when the object has
\* none) and the y literals of the elements the second pattern matches.
Markup(props) ==
    [status_tok |-> IF props.status = Missing THEN "" ELSE props.status,
     yvals |-> SelectSeq(props.series.data, IsDigits)]

\* The chart of a Next.js page as the script of _extract_from_recharts reads
\* it: the numbers of the y-axis tick labels and the y coordinates of the M and
\* L commands of the curve's path, in path order.
Chart(ticks, coords) == [present |-> TRUE, ticks |-> ticks, coords |-> coords]

\* No .recharts-wrapper element in the page.
NoChart == [present |-> FALSE, ticks |-> {}, coords |-> <<>>]

ChartSet ==
    { Chart(t, c) : t \in {{}, {0}, {0, 50, 100}},
                    c \in SeqsUpTo({0, 53, 212}, MaxSeries) }

\* Math.max over a non-empty set of numbers.
MaxOf(S) == CHOOSE m \in S : \A x \in S : x <= m

\* Math.round(num / den) for num >= 0 and den > 0: halves round up.
Round(num, den) == (2 * num + den) \div (2 * den)

\* DownDetectorScraper._extract_from_recharts: None, or the count decoded
\* from the last point of the curve with the status _classify_status gives it.
_extract_from_recharts(chart) ==
    IF ~chart.present THEN Extracted(FALSE, 0, None)
    ELSE IF chart.ticks = {} THEN Extracted(FALSE, 0, None)
    ELSE IF MaxOf(chart.ticks) <= 0 THEN Extracted(FALSE, 0, None)
    ELSE IF chart.coords = <<>> THEN Extracted(FALSE, 0, None)
    ELSE LET yMax == MaxOf(chart.ticks)
             yCoords == chart.coords
             baseline == MaxOf({yCoords[i] : i \in 1..Len(yCoords)})
             lastY == yCoords[Len(yCoords)]
             lastReports == Round(yMax * (baseline - lastY), baseline)
         IN  IF baseline <= 0 THEN Extracted(FALSE, 0, None)
             ELSE Extracted(TRUE, lastReports, _classify_status(lastReports))

\* The embedded objects the response bodies of the extraction model carry.
BodyProps ==
    { NoProps, Props("success", Series(<<>>)), Props("warning", Series(<<>>)),
      Props("warning", Series(<<50, 9>>)), Props(Missing, Series(<<0>>)) }

\* A page as _extract_from_page meets it: whether the script context hands
\* out window.DD.currentServiceProperties (live), the embedded object of the
\* page source, the chart, the "no current problems" phrase, and the number
\* _parse_report_text would find in the body text (-1 for None).
Page(live, props, chart, no_problems, text_count) ==
    [live |-> live, props |-> props, chart |-> chart, no_problems |-> no_problems,
     text_count |-> text_count]

\* The numbers next to "reports" in the body texts of the model.
TextCounts == {-1, 12}

PageSet ==
    { Page(l, p, NoChart, n, tc) :
        l \in BOOLEAN, p \in PropsSet, n \in BOOLEAN, tc \in TextCounts }
    \cup
    { Page(l, p, c, n, tc) :
        l \in BOOLEAN, p \in BodyProps, c \in ChartSet \cup {NoChart}, n \in BOOLEAN,
        tc \in TextCounts }

\* _extract_from_page with the strategies live object, chart, phrase, numeric
\* text patterns, and no static regular expressions.
_extract_from_page_without_static(pg) ==
    LET recharts_result == _extract_from_recharts(pg.chart)
    IN  IF pg.live /\ pg.props.defined THEN _parse_service_properties(pg.props)
        ELSE IF recharts_result.some THEN recharts_result
        ELSE IF pg.no_problems THEN Extracted(TRUE, 0, "ok")
        ELSE IF pg.text_count # -1
        THEN Extracted(TRUE, pg.text_count, _classify_status(pg.text_count))
        ELSE Extracted(TRUE, 0, None)

\* DownDetectorScraper._extract_from_page: the strategies in their order.
_extract_from_page(pg) ==
    IF pg.live /\ pg.props.defined THEN _parse_service_properties(pg.props)
    ELSE LET static == IF ~pg.props.defined THEN Extracted(FALSE, 0, None)
                       ELSE _parse_properties_from_html(Markup(pg.props).status_tok,
                                                        Markup(pg.props).yvals)
             recharts_result == _extract_from_recharts(pg.chart)
         IN  IF static.some THEN static
             ELSE IF recharts_result.some THEN recharts_result
             ELSE IF pg.no_problems THEN Extracted(TRUE, 0, "ok")
             ELSE Extracted(TRUE, 0, None)

\* _CF_CHALLENGE_MARKERS
_CF_CHALLENGE_MARKERS ==
    {"just a moment", "verify you are human", "checking your browser", "cf-challenge"}

\* Phrases a response body may hold (None: none of them).
BodyPhrases == {None, "Just a moment", "cf-challenge", "Verify You Are Human", "moment"}

\* str.lower() on the phrases of the model.
LowerPhrase(t) ==
    CASE t = "Just a moment" -> "just a moment"
      [] t = "Verify You Are Human" -> "verify you are human"
      [] OTHER -> t

\* for marker in _CF_CHALLENGE_MARKERS: if marker in html_lower
has_challenge_marker(phrase) ==
    phrase # None /\ LowerPhrase(phrase) \in _CF_CHALLENGE_MARKERS

\* The HTTP exchanges _do_scrape_curl is applied to: a status code, a phrase,
\* an embedded object, the two substrings of the Next.js test, the "no current
\* problems" phrase and the count in the text.
ExchangeSet ==
    { [phrase |-> ph, props |-> pr,
       resp |-> Response(None, sc, has_challenge_marker(ph),
                         Markup(pr).status_tok, Markup(pr).yvals,
                         ns, wd, np, tc)] :
        ph \in BodyPhrases, pr \in BodyProps, sc \in {200, 403, 503},
        ns \in BOOLEAN, wd \in BOOLEAN, np \in BOOLEAN, tc \in {-1, 0, 9, 10, 49, 50} }

\* ------------------------------------ the extraction functions, called directly
InitExtract ==
    /\ mode = "extract"
    /\ targets = <<"mtn">>
    /\ disk = AbsentFile
    /\ whatsapp_notifier = FALSE
    /\ telegram_notifier = FALSE
    /\ poll_interval = PollInterval
    /\ pc = "start"
    /\ dry_run = FALSE
    /\ openclaw_gateway_token = whatsapp_notifier
    /\ InitCommon
    /\ InitLoaded

\* One call made on a fresh input: the input and what came of it are kept.
Applied(kind, in, out) ==
    /\ pc = "start"
    /\ pc' = kind
    /\ input' = in
    /\ output' = out
    /\ UNCHANGED <<now, shutdown, scraperVars, frameVars, harnessVars, pollVars,
                   historyVars, configVars, loopVars, challenge>>

\* DownDetectorScraper._classify_status(report_count)
Classify ==
    \E report_count \in 0..MaxCount :
        Applied("classified", report_count, _classify_status(report_count))

\* DownDetectorScraper._parse_service_properties(props)
ParseLive ==
    \E props \in PropsSet : Applied("live", props, _parse_service_properties(props))

\* DownDetectorScraper._parse_properties_from_html(html), html holding the
\* markup of props.
ParseStatic ==
    \E props \in PropsSet :
        Applied("static", props,
                _parse_properties_from_html(Markup(props).status_tok, Markup(props).yvals))

\* _do_scrape_curl on a started scraper.
ScrapeCurl ==
    \E ex \in ExchangeSet : Applied("curl", ex, _do_scrape_curl(TRUE, targets[1], ex.resp))

\* _do_scrape_playwright with Tier 2 ready and the navigation succeeding.
ScrapePlaywright ==
    \E pg \in PageSet :
        LET extracted == _extract_from_page(pg)
        IN  Applied("playwright", pg,
                    _do_scrape_playwright(TRUE, targets[1],
                        PageVisit(None, extracted.report_count, extracted.page_status)))

NextExtract ==
    \/ Classify
    \/ ParseLive
    \/ ParseStatic
    \/ ScrapeCurl
    \/ ScrapePlaywright

SpecExtract == InitExtract /\ [][NextExtract]_vars

\* --------------------------- _do_scrape_playwright and the challenge page
\* for _ in range(5): the re-checks of the wait for the challenge to clear
AutoRechecks == 5
\* for _ in range(15): the re-checks after the checkbox was clicked
ClickRechecks == 15

\* The second loop entered whatever _click_cloudflare_checkbox returned.
waits_after_click_always(clicked) == TRUE

\* if await self._click_cloudflare_checkbox(): the second loop is entered
waits_after_click(clicked) == clicked

\* The pages the challenge model extracts from: those without a chart.
ChallengePages == { pg \in PageSet : ~pg.chart.present /\ pg.props \in BodyProps }

\* _do_scrape_playwright is called with Tier 2 ready.
InitChallenge ==
    /\ mode = "challenge"
    /\ targets = <<"mtn">>
    /\ disk = AbsentFile
    /\ whatsapp_notifier = FALSE
    /\ telegram_notifier = FALSE
    /\ poll_interval = PollInterval
    /\ pc = "start"
    /\ dry_run = FALSE
    /\ openclaw_gateway_token = whatsapp_notifier
    /\ InitCommon
    /\ InitLoaded

\* What a step of the challenge handling leaves alone.
ChallengeUnchanged ==
    UNCHANGED <<now, shutdown, scraperVars, frameVars, harnessVars, pollVars,
                historyVars, configVars, loopVars>>

\* page.goto and the first wait, which may raise, then the first
\* _is_cloudflare_challenge().
ChallengeGoto ==
    /\ pc = "start"
    /\ mode = "challenge"
    /\ \/ /\ \E msg \in ErrorMessages : output' = Raised(msg)
          /\ pc' = "raised"
          /\ UNCHANGED challenge
       \/ /\ \E detected \in BOOLEAN :
                /\ challenge' = ChallengeFrame(detected, 0, 0, FALSE, 0, FALSE)
                /\ pc' = IF detected THEN "auto_wait" ELSE "consent"
          /\ UNCHANGED output
    /\ UNCHANGED input
    /\ ChallengeUnchanged

\* One iteration of the first loop (a one-second wait and a re-check), or
\* the loop's end after its last iteration.
ChallengeAutoRecheck ==
    /\ pc = "auto_wait"
    /\ IF challenge.rechecks < AutoRechecks
       THEN \E still \in BOOLEAN :
                /\ challenge' = [challenge EXCEPT !.rechecks = @ + 1, !.resolved = ~still]
                /\ pc' = IF still THEN "auto_wait" ELSE "consent"
       ELSE /\ pc' = "click"
            /\ UNCHANGED challenge
    /\ UNCHANGED <<input, output>>
    /\ ChallengeUnchanged

\* if not resolved: if await self._click_cloudflare_checkbox():
ChallengeClick ==
    /\ pc = "click"
    /\ \E clicked \in BOOLEAN :
         /\ challenge' = [challenge EXCEPT !.clicks = @ + 1, !.clicked = clicked]
         /\ pc' = IF waits_after_click(clicked) THEN "click_wait" ELSE "consent"
    /\ UNCHANGED <<input, output>>
    /\ ChallengeUnchanged

\* One iteration of the second loop, or the loop's end.
ChallengeClickRecheck ==
    /\ pc = "click_wait"
    /\ IF challenge.click_rechecks < ClickRechecks
       THEN \E still \in BOOLEAN :
                /\ challenge' = [challenge EXCEPT !.click_rechecks = @ + 1,
                                                  !.resolved = ~still]
                /\ pc' = IF still THEN "click_wait" ELSE "consent"
       ELSE /\ pc' = "consent"
            /\ UNCHANGED challenge
    /\ UNCHANGED <<input, output>>
    /\ ChallengeUnchanged

\* The rest of _do_scrape_playwright: _dismiss_consent_popup and
\* _click_skip_link, which swallow their exceptions, then _extract_from_page
\* and the ScrapeResult.
ChallengeExtract ==
    /\ pc = "consent"
    /\ \E pg \in ChallengePages :
         LET extracted == _extract_from_page(pg)
         IN  /\ input' = pg
             /\ output' = _do_scrape_playwright(TRUE, targets[1],
                               PageVisit(None, extracted.report_count, extracted.page_status))
    /\ pc' = "scraped"
    /\ UNCHANGED challenge
    /\ ChallengeUnchanged

NextChallenge ==
    \/ ChallengeGoto
    \/ ChallengeAutoRecheck
    \/ ChallengeClick
    \/ ChallengeClickRecheck
    \/ ChallengeExtract

SpecChallenge == InitChallenge /\ [][NextChallenge]_vars

\* ------------------------------------------- the trace of a scrape_service call
Tier1Events == {"t1_ok", "t1_blocked", "t1_error"}
EnsureEvents == {"ensure_ok", "ensure_fail"}
Tier2Events == {"t2_ok", "t2_error"}
FailureEvents == {"t1_error", "ensure_fail", "t2_error"}
SuccessEvents == {"t1_ok", "t2_ok"}

\* The positions of the trace where attempt k did one of evs.
EvIdx(evs, k) == {i \in 1..Len(trace) : trace[i].ev \in evs /\ trace[i].att = k}

\* The tiers of attempt k are over.
AttemptOver(k) == k < attempt \/ pc \in {"attempt_end", "returned", "idle"}

\* The call has returned to its caller.
CallOver == pc \in {"returned", "idle"} /\ trace # <<>>

\* A Tier 2 success ends the call at once, with the Tier 2 result.
Tier2SuccessReturns ==
    \A i \in 1..Len(trace) :
        trace[i].ev = "t2_ok" =>
            /\ i = Len(trace)
            /\ CallOver
            /\ attempt = trace[i].att
            /\ result.source = "playwright"
            /\ result.error = None

\* C1 as stated: in an attempt whose Tier 1 raised CurlBlockedError, exactly
\* one Tier 2 scrape is made before the attempt ends, and a Tier 2 success is
\* returned at once with source=playwright.
C1_Original ==
    /\ \A k \in 1..MaxRetries :
        (EvIdx({"t1_blocked"}, k) # {} /\ AttemptOver(k)) =>
            Cardinality(EvIdx(Tier2Events, k)) = 1
    /\ Tier2SuccessReturns

\* C1 amended: in an attempt whose Tier 1 raised CurlBlockedError,
\* _ensure_playwright is called exactly once, right after Tier 1; exactly
\* one Tier 2 scrape follows when it succeeded and none when it raised; and
\* a Tier 2 success is returned at once with source=playwright.
C1_FallbackOncePerBlockedAttempt ==
    /\ \A k \in 1..MaxRetries :
        (EvIdx({"t1_blocked"}, k) # {} /\ AttemptOver(k)) =>
            /\ Cardinality(EvIdx(EnsureEvents, k)) = 1
            /\ Cardinality(EvIdx(Tier2Events, k)) =
                   (IF EvIdx({"ensure_ok"}, k) # {} THEN 1 ELSE 0)
            /\ \A i \in EvIdx({"t1_blocked"}, k) :
                /\ trace[i + 1].ev \in EnsureEvents
                /\ trace[i + 1].att = k
                /\ trace[i + 1].ev = "ensure_ok" =>
                       (trace[i + 2].ev \in Tier2Events /\ trace[i + 2].att = k)
    /\ Tier2SuccessReturns

\* C1 witness: a call whose second attempt was blocked, started the browser
\* and returned the Tier 2 result.
C1_Witness ==
    /\ mode = "calls"
    /\ pc = "returned"
    /\ attempt = 2
    /\ EvIdx({"t1_blocked"}, 2) # {}
    /\ \E i \in EvIdx({"ensure_ok"}, 2) : trace[i].arg = 1
    /\ EvIdx({"t2_ok"}, 2) # {}
    /\ result.source = "playwright"

\* What the run has done so far: the finished calls' tally and the call in
\* progress.
RunTotal(field, evs) ==
    tally[field] + (IF pc = "idle" THEN 0 ELSE CountEvents(trace, evs))

\* C2: an attempt whose Tier 1 raised anything but CurlBlockedError neither
\* initializes nor invokes Tier 2 and goes on to the sleep and the next
\* attempt (or, after the last attempt, to the return); and over the run
\* there are never more Tier 2 initializations or scrapes than
\* CurlBlockedErrors.
C2_GenericErrorSkipsTier2 ==
    /\ \A i \in 1..Len(trace) :
        trace[i].ev = "t1_error" =>
            /\ EvIdx(EnsureEvents \cup Tier2Events, trace[i].att) = {}
            /\ i < Len(trace) =>
                   (trace[i + 1].ev = "sleep" /\ trace[i + 1].att = trace[i].att)
            /\ i + 1 < Len(trace) =>
                   (trace[i + 2].ev \in Tier1Events /\ trace[i + 2].att = trace[i].att + 1)
            /\ i = Len(trace) =>
                   (pc = "attempt_end" \/ (CallOver /\ trace[i].att = retries))
    /\ RunTotal("ensure", EnsureEvents) <= RunTotal("blocked", {"t1_blocked"})
    /\ RunTotal("tier2", Tier2Events) <= RunTotal("blocked", {"t1_blocked"})

\* C2 witness: a generic Tier 1 error in attempt 1, a Tier 1 success in
\* attempt 2, in a run that has seen a CurlBlockedError before.
C2_Witness ==
    /\ mode = "calls"
    /\ pc = "returned"
    /\ EvIdx({"t1_error"}, 1) # {}
    /\ EvIdx({"t1_ok"}, 2) # {}
    /\ tally.blocked > 0
    /\ tally.tier2 > 0

\* C3 as stated: when every attempt of the call failed, the result has
\* status=error, source=error, report_count=0 and a non-empty error equal to
\* the last failure's message.
C3_Original ==
    (CallOver /\ \A i \in 1..Len(trace) : trace[i].ev \notin SuccessEvents) =>
        /\ result.status = "error"
        /\ result.source = "error"
        /\ result.report_count = 0
        /\ LET last == CHOOSE i \in 1..Len(trace) :
                           /\ trace[i].ev \in FailureEvents
                           /\ \A j \in (i + 1)..Len(trace) : trace[j].ev \notin FailureEvents
           IN  result.error = IF trace[last].ev = "t1_error"
                              THEN trace[last].msg
                              ELSE fallback_error(trace[last].msg)
        /\ Truthy(result.error)

\* C4: while Tier 1 has never raised CurlBlockedError in the run, the browser
\* tier is untouched (no _ensure_playwright call, no Chrome launched,
\* _playwright_started false); and a result with source=curl is returned
\* right after the one Tier 1 call of its attempt.
C4_NoBlockNoBrowser ==
    /\ RunTotal("blocked", {"t1_blocked"}) = 0 =>
        /\ RunTotal("ensure", EnsureEvents) = 0
        /\ RunTotal("tier2", Tier2Events) = 0
        /\ ~playwright_started
        /\ ~page
        /\ ~chrome_process
        /\ ~leaked
    /\ \A i \in 1..Len(trace) :
        trace[i].ev = "t1_ok" =>
            /\ i = Len(trace)
            /\ CallOver
            /\ attempt = trace[i].att
            /\ Cardinality(EvIdx(Tier1Events, trace[i].att)) = 1
            /\ result.source = "curl"

\* C4 witness: two finished calls, generic failures among them, a Tier 1
\* success in a second attempt, and no CurlBlockedError in the run.
C4_Witness ==
    /\ mode = "calls"
    /\ pc = "idle"
    /\ calls = 2
    /\ tally.blocked = 0
    /\ EvIdx({"t1_error"}, 1) # {}
    /\ EvIdx({"t1_ok"}, 2) # {}
    /\ result.source = "curl"

\* C5: every orchestrator sleep lasts 3 * k seconds, k the attempt that just
\* failed, with k < retries; each attempt after the first starts right after
\* the sleep of the attempt before it; nothing follows a success; and a
\* finished call does not end in a sleep.
C5_LinearBackoff ==
    /\ \A i \in 1..Len(trace) :
        /\ trace[i].ev = "sleep" =>
            /\ trace[i].arg = 3 * trace[i].att
            /\ trace[i].att < retries
            /\ i > 1
            /\ trace[i - 1].ev \in FailureEvents
            /\ trace[i - 1].att = trace[i].att
        /\ (trace[i].ev \in Tier1Events /\ trace[i].att > 1) =>
            /\ trace[i - 1].ev = "sleep"
            /\ trace[i - 1].att = trace[i].att - 1
        /\ trace[i].ev \in SuccessEvents => i = Len(trace)
        /\ (trace[i].ev \in FailureEvents /\ trace[i].att < retries /\ AttemptOver(trace[i].att)
                /\ pc # "attempt_end") =>
            (i < Len(trace) /\ trace[i + 1].ev = "sleep")
    /\ CallOver => trace[Len(trace)].ev # "sleep"
    /\ CallOver => CountEvents(trace, {"sleep"}) = attempt - 1

\* C5 witness: a call with retries=3 that slept 3 s and then 6 s and whose
\* third attempt failed too.
C5_Witness ==
    /\ mode = "calls"
    /\ pc = "returned"
    /\ retries = 3
    /\ \E i \in EvIdx({"sleep"}, 1) : trace[i].arg = 3
    /\ \E i \in EvIdx({"sleep"}, 2) : trace[i].arg = 6
    /\ result.source = "error"
    /\ CountEvents(trace, {"sleep"}) = 2

\* ------------------------------------------------------- alerts and cooldown
\* The stored records that are for service (case-insensitively) and whose
\* timestamp parses.
Matching(service) ==
    {i \in 1..Len(records) :
        Lower(records[i].service) = Lower(service) /\ records[i].timestamp # BadTimestamp}

\* An alert stored for service is less than CooldownSecs old now.
RecentAlert(service) ==
    \E i \in Matching(service) : now - records[i].timestamp < CooldownSecs

\* poll_once is in the body of its loop, on targets[idx].
InPollBody == mode \in {"loop", "once"} /\ pc \in {"returned", "send", "record", "delay"}

\* C6: poll_once calls no notifier for a service while an alert recorded for
\* it is less than alert_cooldown old, however high the count; a service
\* found in cooldown is not notified; and the alerts recorded for a service
\* in one run are at least alert_cooldown apart.
C6_OneAlertPerCooldownWindow ==
    /\ (mode \in {"loop", "once"} /\ (pc = "send" \/ (pc = "record" /\ notified # {}))) =>
           ~RecentAlert(targets[idx])
    /\ (InPollBody /\ in_cooldown = "yes") => (notified = {} /\ all_sent_to = <<>> /\ pc = "delay")
    /\ mode \in {"loop", "once"} =>
        \A i \in (n_loaded + 1)..Len(records) :
            \A j \in Matching(records[i].service) :
                j < i => records[i].timestamp - records[j].timestamp >= CooldownSecs

\* C6 witness: in the second cycle the count of a service alerted in the
\* first is at or above the threshold again and the cooldown suppresses it.
C6_Witness ==
    /\ mode = "loop"
    /\ cycles = 2
    /\ pc = "delay"
    /\ in_cooldown = "yes"
    /\ result.report_count >= Threshold
    /\ notified = {}
    /\ \E i \in (n_loaded + 1)..Len(records) : records[i].service = targets[idx]

\* C7: is_in_cooldown(service, c) is true when an alert stored for the
\* service (case-insensitively) is less than c seconds old, false when c
\* seconds or more have passed since the latest one, and records of another
\* service have no part in the answer.
C7_CooldownWindow ==
    (mode = "history" /\ pc = "asked") =>
        LET service == targets[1]
            mine == SelectSeq(records, LAMBDA r : Lower(r.service) = Lower(service))
        IN  /\ (\E i \in Matching(service) :
                    /\ 0 <= now - records[i].timestamp
                    /\ now - records[i].timestamp < CooldownSecs) => in_cooldown = "yes"
            /\ (\A i \in Matching(service) :
                    now - records[i].timestamp >= CooldownSecs) => in_cooldown = "no"
            /\ in_cooldown = "yes" => Matching(service) # {}
            /\ (in_cooldown = "yes") = is_in_cooldown(mine, service, CooldownSecs, now)

\* C7 witness: asked for "MTN" exactly CooldownSecs after an alert for "mtn"
\* was recorded, with a fresher record of another service stored after it:
\* not in cooldown.
C7_Witness ==
    /\ mode = "history"
    /\ pc = "asked"
    /\ targets[1] = "MTN"
    /\ in_cooldown = "no"
    /\ \E i \in 1..Len(records) : \E j \in 1..Len(records) :
        /\ i > n_loaded
        /\ records[i].service = "mtn"
        /\ now - records[i].timestamp = CooldownSecs
        /\ records[j].service = "vodacom"
        /\ records[j].timestamp = now

\* The position of the newest stored record for service whose timestamp
\* parses; 0 when there is none.
NewestMatching(service) ==
    IF Matching(service) = {} THEN 0
    ELSE CHOOSE i \in Matching(service) : \A j \in Matching(service) : j <= i

\* C8 as stated: the newest stored record for the service with a parseable
\* timestamp alone decides the answer.
C8_Original ==
    (mode = "history" /\ pc = "asked") =>
        LET n == NewestMatching(targets[1])
        IN  (in_cooldown = "yes") =
                (n # 0 /\ now - records[n].timestamp < CooldownSecs)

\* C8 amended: the answer is true exactly when some stored record for the
\* service with a parseable timestamp is less than c seconds old; the scan
\* runs newest-first and ends at the first such record, so the records
\* stored before that one are not consulted, while a matching record that
\* has expired does not end it.
C8_FirstRecentRecordDecides ==
    (mode = "history" /\ pc = "asked") =>
        LET service == targets[1]
            hits == {i \in Matching(service) : now - records[i].timestamp < CooldownSecs}
        IN  /\ (in_cooldown = "yes") = (hits # {})
            /\ hits # {} =>
                LET h == CHOOSE i \in hits : \A j \in hits : j <= i
                    rest == SubSeq(records, h, Len(records))
                IN  /\ is_in_cooldown(rest, service, CooldownSecs, now)
                    /\ \A older \in FileRecords :
                        is_in_cooldown(<<older>> \o rest, service, CooldownSecs, now)

\* C8 witness: the newest stored record for the service has expired and one
\* stored before it is recent; the answer is "in cooldown".
C8_Witness ==
    /\ mode = "history"
    /\ pc = "asked"
    /\ in_cooldown = "yes"
    /\ LET n == NewestMatching(targets[1])
       IN  /\ n > 1
           /\ now - records[n].timestamp >= CooldownSecs
           /\ \E i \in Matching(targets[1]) :
                i < n /\ now - records[i].timestamp < CooldownSecs

\* C9: leaving the evaluation of a scrape result, poll_once goes to the
\* dispatch exactly when the result has no error, report_count >= threshold
\* and no alert stored for the service is within the cooldown; a result with
\* status error or a count below the threshold never goes there; and the
\* notifiers are called in the dispatch only.
C9_DispatchExactlyWhen ==
    /\ [][(InPollBody /\ pc = "returned" /\ pc' # "returned") =>
            /\ (pc' = "send") =
                   (/\ ~Truthy(result.error)
                    /\ result.report_count >= Threshold
                    /\ ~RecentAlert(targets[idx]))
            /\ pc' \in {"send", "delay"}
            /\ (result.status = "error" \/ result.report_count < Threshold) => pc' = "delay"
            /\ notified' = {}]_vars
    /\ [][notified' # notified =>
            \/ notified' = {}
            \/ /\ pc = "send"
               /\ notified' = (IF whatsapp_notifier THEN {"whatsapp"} ELSE {})
                                 \cup (IF telegram_notifier THEN {"telegram"} ELSE {})]_vars

\* C9 witness: a count equal to the threshold, with an expired alert stored
\* for the service, is being dispatched.
C9_Witness ==
    /\ InPollBody
    /\ pc = "record"
    /\ notified # {}
    /\ result.report_count = Threshold
    /\ Matching(targets[idx]) # {}

\* C10: every record appended in this run has at least one recipient that
\* confirmed delivery; when every send failed nothing is appended or saved
\* and the service is not in cooldown afterwards.
C10_RecordOnlyOnDelivery ==
    mode \in {"loop", "once"} =>
        /\ \A i \in (n_loaded + 1)..Len(records) : records[i].recipients # <<>>
        /\ \A i \in (n_loaded + 1)..Len(disk.items) : disk.items[i].recipients # <<>>
        /\ (pc = "delay" /\ in_cooldown = "no" /\ all_sent_to = <<>>) =>
               ~RecentAlert(targets[idx])

\* C10 witness: the notifiers were called, every send failed, and poll_once
\* has gone past the recording with the history still empty.
C10_Witness ==
    /\ InPollBody
    /\ pc = "delay"
    /\ in_cooldown = "no"
    /\ notified # {}
    /\ all_sent_to = <<>>
    /\ records = <<>>
    /\ disk = AbsentFile

\* --------------------------------------------------------- the history file
\* seq is the first Len(seq) entries of longer.
IsPrefix(seq, longer) ==
    Len(seq) <= Len(longer) /\ SubSeq(longer, 1, Len(seq)) = seq

\* C11: whenever an AlertHistory is at rest after its record_alert calls, a
\* fresh AlertHistory on the same file loads, without raising, the same
\* records in the same order with the same service, report_count, timestamp
\* and recipients; record_alert only appends, in memory and on disk.
C11_PersistenceRoundTrip ==
    /\ [](mode = "store" /\ pc = "open" =>
            /\ _load(disk).raised = None
            /\ _load(disk).records = records)
    /\ [][(mode = "store" /\ pc' = "save_mkstemp" /\ pc # "save_mkstemp") =>
            /\ Len(records') = Len(records) + 1
            /\ IsPrefix(records, records')]_vars
    /\ [][(mode = "store" /\ pc = "save_replace" /\ disk' # disk) =>
            /\ IsPrefix(_load(disk).records, _load(disk').records)
            /\ _load(disk').records = records]_vars

\* C11 witness: a file with one record was loaded, two alerts with different
\* recipients were recorded and saved, and the file holds all three.
C11_Witness ==
    /\ mode = "store"
    /\ pc = "open"
    /\ n_loaded = 1
    /\ Len(records) = 3
    /\ records[2].recipients # records[3].recipients
    /\ disk = Serialized(records)

\* The file is a serialized sequence of AlertRecords: a JSON array of
\* objects that have the keys of a record.
ValidHistory(file) ==
    /\ file.kind = "array"
    /\ \A i \in 1..Len(file.items) :
        file.items[i].kind = "object" /\ RequiredKeys \subseteq file.items[i].keys

\* C12 as stated: building an AlertHistory on an existing file that is not
\* a serialized sequence of AlertRecords never raises; the store starts
\* empty and the .json.bak file holds the original content.
C12_Original ==
    [][(mode = "store" /\ pc = "start" /\ pc' # "start"
            /\ disk.kind # "absent" /\ ~ValidHistory(disk)) =>
        /\ pc' = "open"
        /\ records' = <<>>
        /\ bak' = disk]_vars

C14_SaveFailurePropagates ==
    /\ [][(InPollBody /\ pc = "record" /\ records' # records /\ disk' = disk) =>
            pc' = "poll_raised"]_vars
    /\ [][(pc = "poll_raised" /\ pc' # pc) =>
            \/ mode = "loop" /\ pc' = "wait"
            \/ mode = "once" /\ pc' = "finally"]_vars
    /\ [](pc = "poll_raised" =>
            /\ disk # Serialized(records)
            /\ records[Len(records)].service = targets[idx])

\* C14 witness: in run_loop the alert for the first service was sent, its
\* record could not be saved, and the exception has left poll_once.
C14_Witness ==
    /\ mode = "loop"
    /\ pc = "poll_raised"
    /\ idx = 1
    /\ Len(records) = 1
    /\ disk = AbsentFile

C16_CrashHandledAsAllFail ==
    /\ [][(mode = "loop" /\ pc = "poll_raised" /\ pc' # pc) =>
            /\ pc' = "wait"
            /\ consecutive_all_fail' = consecutive_all_fail + 1
            /\ LET n == consecutive_all_fail'
               IN  wait_time' = IF poll_interval * 2^n < MaxBackoff
                                THEN poll_interval * 2^n
                                ELSE MaxBackoff
            /\ heartbeats' = heartbeats]_vars
    /\ [][(mode = "loop" /\ pc = "wait" /\ pc' # pc) => pc' = "loop_top"]_vars
    /\ [](mode = "loop" /\ pc = "poll_raised" => curl_session)

\* C16 witness: the first cycle crashed on a failed save, and the second
\* cycle is scraping with the streak at one.
C16_Witness ==
    /\ mode = "loop"
    /\ cycles = 2
    /\ pc = "tier1"
    /\ consecutive_all_fail = 1
    /\ heartbeats = 0
    /\ Len(records) = 1
    /\ disk = AbsentFile

\* The positions of poll_once from the call of scrape_service to the end of
\* the loop body.
InCycle ==
    /\ mode \in {"loop", "once"}
    /\ pc \in {"tier1", "ensure", "tier2", "attempt_end", "returned", "send",
               "record", "delay"}

\* C17: poll_once scrapes the services one at a time in the configured order:
\* the services scraped so far in a cycle are the first idx targets, each once;
\* the next scrape starts only when the previous service has been dealt with;
\* a failed scrape leads to the next service like any other; and when
\* poll_once returns every target has been scraped exactly once.  Only an
\* exception out of record_alert, never a failed scrape, leaves the cycle early.
C17_EachServiceScrapedOnce ==
    /\ [](InCycle => /\ Len(scraped) = idx
                      /\ IsPrefix(scraped, targets))
    /\ [](mode \in {"loop", "once"} /\ pc = "poll_done" => scraped = targets)
    /\ [][scraped' # scraped =>
            /\ pc \in {"poll_begin", "delay"}
            /\ pc' = "tier1"]_vars
    /\ [][(InCycle /\ pc = "returned" /\ Truthy(result.error) /\ pc' # pc) =>
            pc' = "delay"]_vars
    /\ [][(InCycle /\ pc = "delay" /\ pc' # pc) =>
            IF idx < Len(targets)
            THEN scraped' = Append(scraped, targets[idx + 1])
            ELSE pc' = "poll_done" /\ scraped' = scraped]_vars
    /\ [][(pc' = "poll_raised" /\ pc # "poll_raised") => pc = "record"]_vars

\* C17 witness: run_loop's two services were both scraped, in order, in a
\* cycle in which the scrape of the first one (and of the second) failed.
C17_Witness ==
    /\ mode = "loop"
    /\ pc = "poll_done"
    /\ ~any_success
    /\ Len(targets) = 2
    /\ scraped = targets

InScrape == pc \in {"tier1", "ensure", "tier2", "attempt_end"}

\* C19: once _shutdown is set, run_loop leaves its wait without the timeout
\* having to expire or the clock to move, starts no further cycle and reaches
\* its end; the signal handler changes nothing but the event, so a scrape in
\* flight runs on through its own steps and returns to poll_once.
C19_ShutdownEndsWait ==
    /\ shutdown ~> (pc = "done")
    /\ (shutdown /\ InScrape) ~> (pc = "returned")
    /\ [][(shutdown /\ pc = "wait" /\ pc' # pc) =>
            /\ pc' = "loop_top"
            /\ now' = now]_vars
    /\ [][shutdown => cycles' = cycles /\ (pc' = "poll_begin" => pc = "poll_begin")]_vars
    /\ [][shutdown' # shutdown =>
            /\ pc' = pc
            /\ UNCHANGED <<scraperVars, frameVars, pollVars, historyVars, loopVars>>]_vars
    /\ [][(shutdown /\ InScrape) => (pc' \in {"tier1", "ensure", "tier2", "attempt_end",
                                                "returned"})]_vars

\* C19 witness: the shutdown came with a one-hour backoff wait ahead; run_loop
\* has ended with the clock where it was and no second cycle.
C19_Witness ==
    /\ mode = "loop"
    /\ shutdown
    /\ pc = "done"
    /\ cycles = 1
    /\ consecutive_all_fail = 1
    /\ wait_time = MaxBackoff
    /\ now = 0

Made(log, e) == \E i \in 1..Len(log) : log[i] = e

\* C21: in every state a scraper can be in between calls (never started,
\* Chrome launched but the attach not completed, Tier 2 ready), a stop() that
\* returns leaves a scraper on which a second stop() makes no close or
\* terminate call, raises nothing and changes no field; the second of two
\* stop() calls made on the scraper did nothing when the first returned.
C21_StopIdempotent ==
    /\ [](pc \in {"start", "idle"} =>
            \A first \in StopOutcomes(Scraper) :
                first.raised = None =>
                    \A second \in StopOutcomes(first.state) :
                        /\ second.log = <<>>
                        /\ second.raised = None
                        /\ second.state = first.state)
    /\ [][(/\ mode = "stop"
           /\ stop_calls' # stop_calls
           /\ stop_calls # <<>>
           /\ stop_calls[Len(stop_calls)].raised = None
           /\ ~curl_session) =>
            /\ stop_calls'[Len(stop_calls')] = [log |-> <<>>, raised |-> None]
            /\ UNCHANGED <<curl_session, playwright_started, page, playwright,
                           chrome_process>>]_vars

\* C21 witness: stop() was called twice on a scraper whose Chrome was launched
\* but whose attach failed; the first call terminated the process, the second
\* did nothing.
C21_Witness ==
    /\ mode = "stop"
    /\ pc = "idle"
    /\ playwright
    /\ ~playwright_started
    /\ ~chrome_process
    /\ Len(stop_calls) = 2
    /\ stop_calls[1] = [log |-> <<"curl_close", "terminate">>, raised |-> None]
    /\ stop_calls[2] = [log |-> <<>>, raised |-> None]

\* C22: after a stop() call, whether it returned or raised, no Chrome launched
\* by _ensure_playwright is left running: none is held in _chrome_process and
\* none runs on without a handle.
C22_Original ==
    [][stop_calls' # stop_calls => ~chrome_process' /\ ~leaked']_vars

\* The calls by which stop() closes the automation session.
SessionCloses == {"context_close", "browser_close", "playwright_stop"}

\* In log every call of the set first precedes every call named later.
Precede(log, first, later) ==
    \A i \in 1..Len(log), j \in 1..Len(log) :
        (log[i] \in first /\ log[j] = later) => i < j

C24_BlockedBeforeExtraction ==
    pc = "curl" =>
        /\ input.resp.status_code # 200 =>
               /\ output.tag = "blocked"
               /\ output.status_code = input.resp.status_code
               /\ output.result = NoResult
        /\ (/\ input.resp.status_code = 200
            /\ input.phrase # None
            /\ LowerPhrase(input.phrase) \in _CF_CHALLENGE_MARKERS) =>
               /\ output.tag = "blocked"
               /\ output.status_code = 200
               /\ output.result = NoResult

C24_Witness ==
    /\ pc = "curl"
    /\ input.resp.status_code = 200
    /\ input.phrase = "Just a moment"
    /\ input.resp.yvals = <<50, 9>>
    /\ output.tag = "blocked"
    /\ output.status_code = 200

\* C25: a 200 response whose body holds the "_next/static" loader marker and
\* no embedded data object makes _do_scrape_curl raise CurlBlockedError; it
\* never returns a result with report count zero.
C25_Original ==
    (/\ pc = "curl"
     /\ input.resp.status_code = 200
     /\ input.resp.next_static
     /\ ~input.props.defined) =>
        /\ output.tag = "blocked"
        /\ ~(output.tag = "ok" /\ output.result.report_count = 0)

\* The series is non-empty and every y in it is a non-negative integer.
WellFormedSeries(props) ==
    /\ props.series.data # <<>>
    /\ \A i \in 1..Len(props.series.data) : props.series.data[i] >= 0

\* The largest y of a non-empty series is not its last.
LastIsNotLargest(data) ==
    \E i \in 1..Len(data) : data[i] > data[Len(data)]

\* C26: for every non-empty series of an embedded object, the live strategy
\* and the static strategy both return the y of the last element in document
\* order, whatever the magnitudes of the elements before it; never the
\* largest y.
C26_LastElementNotMax ==
    /\ (pc = "live" /\ input.series.data # <<>>) =>
           output.report_count = input.series.data[Len(input.series.data)]
    /\ (pc = "static" /\ WellFormedSeries(input)) =>
           /\ output.some
           /\ output.report_count = input.series.data[Len(input.series.data)]

C26_Witness ==
    /\ pc = "static"
    /\ input.series.data = <<50, 9>>
    /\ LastIsNotLargest(input.series.data)
    /\ output.some
    /\ output.report_count = 9

\* The band of a report count.
Band(count) ==
    CASE count \in 0..9 -> "ok"
      [] count \in 10..49 -> "warning"
      [] OTHER -> "danger"

\* C27: _classify_status returns ok for counts 0..9, warning for 10..49 and
\* danger from 50 on, the boundaries 9, 10, 49 and 50 included; and a result
\* built from a page or body that gives no recognized explicit status
\* carries the band of its report count as status.
C27_ClassifyBands ==
    /\ pc = "classified" => output = Band(input)
    /\ (/\ pc \in {"curl", "playwright"}
        /\ output.tag = "ok"
        /\ input.props.status \notin {"success", "warning", "danger"}
        /\ output.result.report_count >= 0) =>
           output.result.status = Band(output.result.report_count)

C27_Witness ==
    /\ pc = "playwright"
    /\ input.live
    /\ input.props.status = "maintenance"
    /\ input.props.series.data = <<9, 50>>
    /\ output.result.report_count = 50
    /\ output.result.status = "danger"

\* The count of a series, whatever the status: the last y, or 0 when the
\* series is empty or missing.
CountOf(series) ==
    IF series.data = <<>> THEN 0 ELSE series.data[Len(series.data)]

\* C28: the live strategy maps the status of every embedded object without
\* raising: success to ok, warning and danger to themselves, every other
\* token and a missing status to no explicit status (None); the report count
\* it returns depends on the series alone. Where the static strategy
\* returns a tuple, its status follows the same mapping.
C28_StatusMappingTotal ==
    /\ pc = "live" =>
           /\ output.some
           /\ input.status = "success" => output.page_status = "ok"
           /\ input.status = "warning" => output.page_status = "warning"
           /\ input.status = "danger" => output.page_status = "danger"
           /\ input.status \notin {"success", "warning", "danger"} =>
                  output.page_status = None
           /\ output.report_count = CountOf(input.series)
    /\ (pc = "static" /\ output.some) =>
           /\ input.status = "success" => output.page_status = "ok"
           /\ input.status \in {"warning", "danger"} => output.page_status = input.status
           /\ input.status \notin {"success", "warning", "danger"} =>
                  output.page_status = None

C28_Witness ==
    /\ pc = "live"
    /\ input.status = "maintenance"
    /\ input.series.data = <<50>>
    /\ output.page_status = None
    /\ output.report_count = 50

\* C29: every ScrapeResult a tier returns, and with it every result of
\* scrape_service, has report_count >= 0: from the body of Tier 1, and from
\* the live object, the static regexes, the chart or the text of Tier 2.
C29_Original ==
    (pc \in {"curl", "playwright"} /\ output.tag = "ok") =>
        output.result.report_count >= 0

\* C30: for every embedded object, whatever its status token and its series
\* (an empty or a missing one included), the static strategy applied to the
\* object's markup returns the same (report_count, status) as the live
\* strategy applied to the object.
C30_Original ==
    pc = "static" =>
        /\ output.some
        /\ output.report_count = _parse_service_properties(input).report_count
        /\ output.page_status = _parse_service_properties(input).page_status

\* ------------------------------------------------- claims: Tier 2 and the loop
\* What the static regular expressions find in the source of a page.
StaticFinds(pg) ==
    /\ pg.props.defined
    /\ \/ Markup(pg.props).yvals # <<>>
       \/ pg.props.status = "success"

\* C31 as stated: the Tier 2 extractor consults the live object, then the
\* chart, then the no-current-problems phrase, then the numeric text
\* patterns, then falls back to (0, unknown), and never applies the static
\* regular expressions.
C31_Original ==
    pc = "playwright" =>
        LET claimed == _extract_from_page_without_static(input)
        IN  /\ output.result.report_count = claimed.report_count
            /\ output.result.status = StatusOr(claimed.page_status, claimed.report_count)

\* C31 amended: _extract_from_page consults, stopping at the first that
\* yields a result: the live object, the static regular expressions on the
\* page source, the chart decode, the no-current-problems phrase, and the
\* fallback (0, no status); the numeric text patterns are never consulted.
C31_StrategyOrder ==
    pc = "playwright" =>
        LET live == input.live /\ input.props.defined
            static == ~live /\ StaticFinds(input)
            chart == ~live /\ ~static /\ _extract_from_recharts(input.chart).some
            yvals == Markup(input.props).yvals
            count == output.result.report_count
        IN  /\ output.tag = "ok"
            /\ output.result.source = "playwright"
            /\ live => count = CountOf(input.props.series)
            /\ static => count = IF yvals # <<>> THEN yvals[Len(yvals)] ELSE 0
            /\ chart => count = _extract_from_recharts(input.chart).report_count
            /\ (~live /\ ~static /\ ~chart) =>
                   /\ count = 0
                   /\ output.result.status = "ok"

C31_Witness ==
    /\ pc = "playwright"
    /\ ~input.live
    /\ input.props.series.data = <<50, 9>>
    /\ _extract_from_recharts(input.chart).some
    /\ _extract_from_recharts(input.chart).report_count = 75
    /\ input.text_count = 12
    /\ output.result.report_count = 9

\* The hour lies in the configured window, start included and end excluded.
InWindow(hour) == hour >= ActiveHoursStart /\ hour < ActiveHoursEnd

\* C32: run_loop starts a poll cycle only when the current hour h satisfies
\* active_hours_start <= h < active_hours_end; in an iteration whose hour is
\* outside the window the loop goes straight to its wait, and until the
\* next iteration no service is scraped, no notifier is called and no alert
\* is recorded.
C32_ActiveHoursGate ==
    /\ [](mode = "loop" /\ pc = "poll_begin" => InWindow(current_hour))
    /\ [](current_hour # NoHour /\ ~InWindow(current_hour) => pc = "wait")
    /\ [][(pc = "loop_top" /\ current_hour' # NoHour /\ ~InWindow(current_hour')) =>
             /\ pc' = "wait"
             /\ UNCHANGED <<cycles, scraped, result, notified, all_sent_to, records, disk>>]_vars
    /\ [][(pc = "wait" /\ current_hour # NoHour) =>
             /\ pc' \in {"wait", "loop_top"}
             /\ UNCHANGED <<cycles, scraped, result, notified, all_sent_to, records, disk>>]_vars

C32_Witness ==
    /\ mode = "loop"
    /\ pc = "wait"
    /\ current_hour = ActiveHoursEnd
    /\ cycles = 1
    /\ scraped = <<"mtn">>

\* C33: in a run started with --dry-run no notifier is called and no
\* message reaches a recipient, whatever the scraped count and whatever
\* credentials and recipients are configured.
C33_Original ==
    dry_run => notified = {} /\ all_sent_to = <<>>

\* C34: poll_once counts a service as scraped (sets any_success) exactly
\* when the result's status is not error: the result of the exhausted
\* retries of scrape_service never sets any_success and is never taken past
\* the error branch.
C34_Original ==
    [][(pc = "returned" /\ pc' # "returned") =>
          /\ any_success' = (any_success \/ result.status # "error")
          /\ result.status = "error" => poll_decision(result, records, targets[idx], now) = "error"]_vars

\* C35: whatever poll_interval the configuration holds, the wait run_loop
\* applies after a cycle in which every service failed is at least
\* poll_interval.
C35_Original ==
    (mode = "loop" /\ pc = "wait" /\ consecutive_all_fail > 0) =>
        wait_time >= poll_interval

\* C36: a scrape_service call never leaves by an exception of a tier: each
\* tier failure leads to the end of the attempt, the call makes at most
\* retries calls of each tier, and it ends with a ScrapeResult from Tier 1,
\* from Tier 2 or from the error path.
C36_TotalAndBounded ==
    /\ pc \in {"start", "idle", "tier1", "ensure", "tier2", "attempt_end", "returned"}
    /\ attempt <= retries
    /\ CountEvents(trace, Tier1Events) <= retries
    /\ CountEvents(trace, Tier2Events) <= retries
    /\ \A k \in 1..retries :
          /\ Cardinality(EvIdx(Tier1Events, k)) <= 1
          /\ Cardinality(EvIdx(Tier2Events, k)) <= 1
    /\ CallOver =>
          /\ result.service = targets[idx]
          /\ result.source \in {"curl", "playwright", "error"}
          /\ result.source = "error" <=>
                 \A i \in 1..Len(trace) : trace[i].ev \notin SuccessEvents
          /\ result.source = "error" => CountEvents(trace, Tier1Events) = retries

C36_Witness ==
    /\ CallOver
    /\ retries = 2
    /\ result.source = "error"
    /\ CountEvents(trace, Tier1Events) = 2
    /\ CountEvents(trace, {"t2_error"}) = 2

\* Nothing on the page can be extracted.
NothingExtractable(pg) ==
    /\ ~(pg.live /\ pg.props.defined)
    /\ ~StaticFinds(pg)
    /\ ~_extract_from_recharts(pg.chart).some

Unsaved == { i \in 1..Len(records) : i > Len(_load(disk).records) }

\* C38 as stated: once _save has failed inside record_alert, the record is
\* in memory, the file lacks it, and from then on is_in_cooldown answers
\* true for its service.
C38_Original ==
    mode = "loop" =>
        \A i \in Unsaved :
            is_in_cooldown(records, records[i].service, CooldownSecs, now)

\* C38 amended: when _save fails inside record_alert the new record has
\* already been appended in memory and stays there for the rest of the run
\* (get_all includes it), while the file is left as it was until a later
\* save succeeds and writes every record; while the record is less than the
\* cooldown old, poll_once finds its service in cooldown, and after that
\* the record no longer holds an alert back.
C38_UnsavedRecordKept ==
    /\ [][(pc = "record" /\ pc' = "poll_raised") =>
             /\ records' = Append(records,
                     AlertRecord(targets[idx], result.report_count, now, all_sent_to))
             /\ disk' = disk
             /\ Len(records') \in Unsaved']_vars
    /\ [][IsPrefix(records, records')]_vars
    /\ [][disk' = disk \/ disk' = Serialized(records')]_vars
    /\ [](\A i \in Unsaved :
             now - records[i].timestamp < CooldownSecs =>
                 is_in_cooldown(records, records[i].service, CooldownSecs, now))
    /\ [][(/\ pc = "returned"
           /\ pc' # "returned"
           /\ ~scrape_failed(result)
           /\ result.report_count >= Threshold
           /\ Unsaved # {}) =>
             IF \E i \in Unsaved : /\ Lower(records[i].service) = Lower(targets[idx])
                                    /\ now - records[i].timestamp < CooldownSecs
             THEN in_cooldown' = "yes" /\ pc' = "delay"
             ELSE in_cooldown' = "no" /\ pc' = "send"]_vars

C38_Witness ==
    /\ mode = "loop"
    /\ cycles = 2
    /\ pc = "delay"
    /\ in_cooldown = "yes"
    /\ Len(records) = 1
    /\ Unsaved = {1}
    /\ disk = AbsentFile
====
